---- MODULE Spec2Model ----
(***************************************************************************)
(* Metadata Hider: the rule engine of main.ts as a state machine.          *)
(*                                                                         *)
(* Text is modelled as a sequence of one-character strings, so that        *)
(* toLowerCase, trim, startsWith and split act on characters as the        *)
(* JavaScript string methods do.                                           *)
(***************************************************************************)
EXTENDS Integers, Sequences, FiniteSets, TLC

(***************************************************************************)
(* JavaScript string methods used by main.ts                               *)
(***************************************************************************)
UpperChars == <<"A","B","C","D","E","F","G","H","I","J","K","L","M",
                "N","O","P","Q","R","S","T","U","V","W","X","Y","Z">>
LowerChars == <<"a","b","c","d","e","f","g","h","i","j","k","l","m",
                "n","o","p","q","r","s","t","u","v","w","x","y","z">>

toLowerCaseChar(c) ==
    IF \E i \in DOMAIN UpperChars : UpperChars[i] = c
    THEN LowerChars[CHOOSE i \in DOMAIN UpperChars : UpperChars[i] = c]
    ELSE c

toLowerCase(s) == [i \in 1..Len(s) |-> toLowerCaseChar(s[i])]

IsWhiteSpace(c) == c = " "

RECURSIVE trimStart(_)
trimStart(s) ==
    IF s # <<>> /\ IsWhiteSpace(Head(s)) THEN trimStart(Tail(s)) ELSE s

RECURSIVE trimEnd(_)
trimEnd(s) ==
    IF s # <<>> /\ IsWhiteSpace(s[Len(s)])
    THEN trimEnd(SubSeq(s, 1, Len(s) - 1))
    ELSE s

trim(s) == trimEnd(trimStart(s))

startsWith(s, prefix) ==
    /\ Len(prefix) <= Len(s)
    /\ SubSeq(s, 1, Len(prefix)) = prefix

endsWith(s, suffix) ==
    /\ Len(suffix) <= Len(s)
    /\ SubSeq(s, Len(s) - Len(suffix) + 1, Len(s)) = suffix

RECURSIVE splitFrom(_, _, _)
splitFrom(s, sep, cur) ==
    IF s = <<>> THEN <<cur>>
    ELSE IF Head(s) = sep
         THEN <<cur>> \o splitFrom(Tail(s), sep, <<>>)
         ELSE splitFrom(Tail(s), sep, Append(cur, Head(s)))

split(s, sep) == splitFrom(s, sep, <<>>)

includes(list, x) == \E i \in DOMAIN list : list[i] = x

RECURSIVE mapTrimLower(_)
mapTrimLower(list) ==
    IF list = <<>> THEN <<>>
    ELSE <<toLowerCase(trim(Head(list)))>> \o mapTrimLower(Tail(list))

RECURSIVE mapLower(_)
mapLower(list) ==
    IF list = <<>> THEN <<>>
    ELSE <<toLowerCase(Head(list))>> \o mapLower(Tail(list))

RECURSIVE filterNonEmpty(_)
filterNonEmpty(list) ==
    IF list = <<>> THEN <<>>
    ELSE IF Head(list) # <<>>
         THEN <<Head(list)>> \o filterNonEmpty(Tail(list))
         ELSE filterNonEmpty(Tail(list))

(***************************************************************************)
(* new RegExp(pattern, 'i').test(s), for the fragment of the pattern       *)
(* language the rule lists of this model use: literal characters, ".",     *)
(* a leading "^", a trailing "$" and grouping parentheses.  The            *)
(* constructor throws a SyntaxError on unbalanced parentheses, an          *)
(* unterminated "[" and a leading quantifier.                              *)
(***************************************************************************)
RECURSIVE ParenDepthOk(_, _)
ParenDepthOk(p, depth) ==
    IF p = <<>> THEN depth = 0
    ELSE IF Head(p) = "(" THEN ParenDepthOk(Tail(p), depth + 1)
    ELSE IF Head(p) = ")" THEN depth > 0 /\ ParenDepthOk(Tail(p), depth - 1)
    ELSE ParenDepthOk(Tail(p), depth)

RegExpThrows(pattern) ==
    \/ ~ParenDepthOk(pattern, 0)
    \/ (\E i \in DOMAIN pattern : pattern[i] = "[")
         /\ ~(\E i \in DOMAIN pattern : pattern[i] = "]")
    \/ pattern # <<>> /\ Head(pattern) \in {"*", "+", "?"}

RECURSIVE StripParens(_)
StripParens(p) ==
    IF p = <<>> THEN <<>>
    ELSE IF Head(p) \in {"(", ")"} THEN StripParens(Tail(p))
    ELSE <<Head(p)>> \o StripParens(Tail(p))

RegExpTest(pattern, s) ==
    LET body     == StripParens(pattern)
        atStart  == body # <<>> /\ Head(body) = "^"
        b1       == IF atStart THEN Tail(body) ELSE body
        atEnd    == b1 # <<>> /\ b1[Len(b1)] = "$"
        core     == toLowerCase(IF atEnd THEN SubSeq(b1, 1, Len(b1) - 1) ELSE b1)
        subject  == toLowerCase(s)
        starts   == IF atStart THEN {1} ELSE 1..(Len(subject) + 1)
        fits(k)  == /\ k + Len(core) - 1 <= Len(subject)
                    /\ \A j \in DOMAIN core :
                          core[j] = "." \/ core[j] = subject[k + j - 1]
                    /\ atEnd => k + Len(core) - 1 = Len(subject)
    IN \E k \in starts : fits(k)

(***************************************************************************)
(* Matcher: main.ts lines 38-117                                           *)
(***************************************************************************)
\* entry.<field>?.trim(): the empty text when the field is undefined
FieldTrim(entry, f) == IF f \in DOMAIN entry THEN trim(entry[f]) ELSE <<>>

\* the two scope checks joined by "or": one passing check is enough
isEntryApplicableEither(entry, file, path, app) ==
    IF FieldTrim(entry, "folderFilter") = <<>> /\ FieldTrim(entry, "tagFilter") = <<>>
    THEN TRUE
    ELSE IF file = 0 THEN FALSE
    ELSE LET folder0 == trim(entry.folderFilter)
             folder  == IF endsWith(folder0, <<"/">>) THEN folder0
                        ELSE folder0 \o <<"/">>
             folderOk ==
                 /\ FieldTrim(entry, "folderFilter") # <<>>
                 /\ startsWith(path, folder)
             targetTag == toLowerCase(trim(entry.tagFilter))
             normalizedTarget ==
                 IF startsWith(targetTag, <<"#">>) THEN targetTag
                 ELSE <<"#">> \o targetTag
             cache == app[file]
             tagOk ==
                 /\ FieldTrim(entry, "tagFilter") # <<>>
                 /\ cache.cached
                 /\ normalizedTarget \in {toLowerCase(t) : t \in cache.tags}
         IN folderOk \/ tagOk

\* without the check for a missing document: a scoped rule applies when
\* no document is open
isEntryApplicableNoDocument(entry, file, path, app) ==
    IF FieldTrim(entry, "folderFilter") = <<>> /\ FieldTrim(entry, "tagFilter") = <<>>
    THEN TRUE
    ELSE IF file = 0 THEN TRUE
    ELSE LET folder0 == trim(entry.folderFilter)
             folder  == IF endsWith(folder0, <<"/">>) THEN folder0
                        ELSE folder0 \o <<"/">>
             targetTag == toLowerCase(trim(entry.tagFilter))
             normalizedTarget ==
                 IF startsWith(targetTag, <<"#">>) THEN targetTag
                 ELSE <<"#">> \o targetTag
         IN /\ FieldTrim(entry, "folderFilter") # <<>> => startsWith(path, folder)
            /\ FieldTrim(entry, "tagFilter") # <<>> =>
                  /\ app[file].cached
                  /\ normalizedTarget \in {toLowerCase(t) : t \in app[file].tags}

\* file = 0 is null; app is the metadata cache: file -> [cached, tags, frontmatter]
isEntryApplicable(entry, file, path, app) ==
    IF FieldTrim(entry, "folderFilter") = <<>> /\ FieldTrim(entry, "tagFilter") = <<>>
    THEN TRUE
    ELSE IF file = 0 THEN FALSE
    ELSE LET folder0 == trim(entry.folderFilter)
             folder  == IF endsWith(folder0, <<"/">>) THEN folder0
                        ELSE folder0 \o <<"/">>
             folderFails ==
                 /\ FieldTrim(entry, "folderFilter") # <<>>
                 /\ ~startsWith(path, folder)
             targetTag == toLowerCase(trim(entry.tagFilter))
             normalizedTarget ==
                 IF startsWith(targetTag, <<"#">>) THEN targetTag
                 ELSE <<"#">> \o targetTag
             cache == app[file]
             tagFails ==
                 /\ FieldTrim(entry, "tagFilter") # <<>>
                 /\ \/ ~cache.cached
                    \/ normalizedTarget \notin {toLowerCase(t) : t \in cache.tags}
         IN ~folderFails /\ ~tagFails

\* the catch block answering true instead of false
matchesEntryNameCatchTrue(propertyKey, entry) ==
    LET normalizedKey == toLowerCase(propertyKey)
    IN IF entry.isRegex
       THEN IF RegExpThrows(entry.name) THEN TRUE
            ELSE RegExpTest(entry.name, normalizedKey)
       ELSE normalizedKey = toLowerCase(entry.name)

matchesEntryName(propertyKey, entry) ==
    LET normalizedKey == toLowerCase(propertyKey)
    IN IF entry.isRegex
       THEN IF RegExpThrows(entry.name) THEN FALSE
            ELSE RegExpTest(entry.name, normalizedKey)
       ELSE normalizedKey = toLowerCase(entry.name)

\* a frontmatter value is [isArray, items]; a scalar has one item
buildFrontmatterLower(frontmatter) ==
    [k \in {toLowerCase(x) : x \in DOMAIN frontmatter} |->
        LET src == CHOOSE x \in DOMAIN frontmatter : toLowerCase(x) = k
        IN [isArray |-> frontmatter[src].isArray,
            items   |-> mapLower(frontmatter[src].items)]]

\* propEl is [hasInput, value]: the element's text input, if it holds one
matchesValueCondition(entry, key, frontmatterLower, propEl) ==
    LET cond == FieldTrim(entry, "valueCondition")
        conditions == filterNonEmpty(mapTrimLower(split(cond, ",")))
    IN IF cond = <<>> THEN TRUE
       ELSE IF conditions = <<>> THEN TRUE
       ELSE IF propEl.hasInput
            THEN includes(conditions, trim(toLowerCase(propEl.value)))
       ELSE IF key \notin DOMAIN frontmatterLower THEN FALSE
       ELSE \E i \in DOMAIN frontmatterLower[key].items :
               includes(conditions, frontmatterLower[key].items[i])

(***************************************************************************)
(* Texts that occur in the rule lists, documents and field maps            *)
(***************************************************************************)
Str_status    == <<"s","t","a","t","u","s">>
Str_Status    == <<"S","t","a","t","u","s">>
Str_private   == <<"_","p","r","i","v">>
Str_public    == <<"p","u","b">>
Str_caret_s   == <<"^","s">>
Str_caret_    == <<"^","_">>
Str_badparen  == <<"(">>
Str_Projects  == <<"P","r","o","j","e","c","t","s">>
Str_ProjectsSlash == <<"P","r","o","j","e","c","t","s","/">>
Str_work      == <<"w","o","r","k">>
Str_hashWork  == <<"#","W","o","r","k">>
Str_hashPriv  == <<"#","p","r","i","v","a","t","e">>
Str_CancelledDone ==
    <<"C","a","n","c","e","l","l","e","d",","," ","D","o","n","e">>
Str_cancelled == <<"c","a","n","c","e","l","l","e","d">>
Str_DONE_sp   == <<" ","D","O","N","E"," ">>
Str_Done      == <<"D","o","n","e">>
Str_cancel    == <<"c","a","n","c","e","l">>
Str_Active    == <<"A","c","t","i","v","e">>
Str_hide      == <<"h","i","d","e">>

\* the documents of the vault: TFile.path of file 1, 2, 3
FilePaths == << <<"P","r","o","j","e","c","t","s","/","a",".","m","d">>,
                <<"N","o","t","e","s","/","y",".","m","d">>,
                <<"P","r","o","j","e","c","t","s","X","/","b",".","m","d">> >>
Files == DOMAIN FilePaths
PathOf(file) == IF file = 0 THEN <<>> ELSE FilePaths[file]

\* the field keys the host displays for an open document (data-property-key
\* holds the key in lower case), and the keys of the all-properties panel
DisplayedKeys(file) == IF file = 0 THEN {} ELSE {Str_status, Str_private}
AllPropertyKeys == {Str_Status, Str_private, Str_public}
KeyUniverse == {Str_status, Str_private, Str_public}

Scalar(v) == [isArray |-> FALSE, items |-> <<v>>]
List(vs)  == [isArray |-> TRUE, items |-> vs]
NoInput   == [hasInput |-> FALSE, value |-> <<>>]
Input(v)  == [hasInput |-> TRUE, value |-> v]

(***************************************************************************)
(* Settings: main.ts lines 5-36                                            *)
(***************************************************************************)
HideTargets(ti, ta, fp, ap) ==
    [tableInactive |-> ti, tableActive |-> ta,
     fileProperties |-> fp, allProperties |-> ap]

Entry(name, isRegex, folder, tag, action, cond, hide) ==
    [name |-> name, isRegex |-> isRegex, folderFilter |-> folder,
     tagFilter |-> tag, action |-> action, valueCondition |-> cond,
     hide |-> hide]

DEFAULT_SETTINGS ==
    [autoFold |-> FALSE, hideEmptyEntry |-> TRUE,
     hideEmptyEntryInSideDock |-> FALSE, propertiesVisible |-> <<>>,
     propertyHideAll |-> Str_hide, entries |-> <<>>]

\* e.isRegex || e.valueCondition?.trim(): the rule is decided on the live path
IsDomEntry(entry) == entry.isRegex \/ FieldTrim(entry, "valueCondition") # <<>>

(***************************************************************************)
(* Declarative generator: main.ts lines 359-460.  The fragment is a list   *)
(* of blocks [kind, keys]: kind names the fixed text of the block, keys    *)
(* the escaped field keys it embeds.                                       *)
(***************************************************************************)
RECURSIVE escapeCSSAttrValue(_)
escapeCSSAttrValue(value) ==
    IF value = <<>> THEN <<>>
    ELSE IF Head(value) = "\\" THEN <<"\\", "\\">> \o escapeCSSAttrValue(Tail(value))
    ELSE IF Head(value) = "\"" THEN <<"\\", "\"">> \o escapeCSSAttrValue(Tail(value))
    ELSE <<Head(value)>> \o escapeCSSAttrValue(Tail(value))

Block(kind, keys) == [kind |-> kind, keys |-> keys]

\* src/util.ts: split on commas, trim, drop the empty items
string2list(text) == filterNonEmpty(
    LET parts == split(text, ",")
        RECURSIVE trimAll(_)
        trimAll(l) == IF l = <<>> THEN <<>>
                      ELSE <<trim(Head(l))>> \o trimAll(Tail(l))
    IN trimAll(parts))

RECURSIVE genCSSKeys(_)
genCSSKeys(properties) ==
    IF properties = <<>> THEN <<>>
    ELSE <<escapeCSSAttrValue(toLowerCase(trim(Head(properties))))>>
         \o genCSSKeys(Tail(properties))

genCSS(properties, kind) ==
    IF properties = <<>> THEN Block("empty", <<>>)
    ELSE Block(kind, genCSSKeys(properties))

\* the blocks of a claimed entry when the generic hide block is written for
\* tableInactive only
EntryBlocksInactiveOnly(entry, key) ==
    IF entry.action = "show"
    THEN <<Block("comment-show", <<key>>),
           Block("show", <<escapeCSSAttrValue(key)>>)>>
    ELSE (IF entry.hide.fileProperties
          THEN <<Block("hide-file-properties", <<escapeCSSAttrValue(key)>>)>>
          ELSE <<>>)
         \o (IF entry.hide.tableInactive
             THEN <<Block("hide", <<escapeCSSAttrValue(key)>>)>>
             ELSE <<>>)
         \o (IF entry.hide.tableActive
             THEN <<Block("hide-active", <<escapeCSSAttrValue(key)>>)>>
             ELSE <<>>)

\* the blocks one claimed entry emits (main.ts lines 435-449)
EntryBlocks(entry, key) ==
    IF entry.action = "show"
    THEN <<Block("comment-show", <<key>>),
           Block("show", <<escapeCSSAttrValue(key)>>)>>
    ELSE (IF entry.hide.fileProperties
          THEN <<Block("hide-file-properties", <<escapeCSSAttrValue(key)>>)>>
          ELSE <<>>)
         \o (IF entry.hide.tableInactive \/ entry.hide.tableActive
             THEN <<Block("hide", <<escapeCSSAttrValue(key)>>)>>
             ELSE <<>>)
         \o (IF entry.hide.tableActive
             THEN <<Block("hide-active", <<escapeCSSAttrValue(key)>>)>>
             ELSE <<>>)

\* the loop without its claimed set: every applicable literal rule emits
\* its blocks
RECURSIVE genEntriesCSSNoClaim(_, _, _, _, _)
genEntriesCSSNoClaim(entries, claimed, file, path, app) ==
    IF entries = <<>> THEN <<>>
    ELSE LET entry == Head(entries)
             rest  == Tail(entries)
             key   == toLowerCase(trim(entry.name))
         IN IF IsDomEntry(entry) \/ ~isEntryApplicable(entry, file, path, app)
               \/ key = <<>>
            THEN genEntriesCSSNoClaim(rest, claimed, file, path, app)
            ELSE EntryBlocks(entry, key)
                 \o genEntriesCSSNoClaim(rest, claimed, file, path, app)

\* the loop over s.entries with its claimed set (main.ts lines 419-450)
RECURSIVE genEntriesCSS(_, _, _, _, _)
genEntriesCSS(entries, claimed, file, path, app) ==
    IF entries = <<>> THEN <<>>
    ELSE LET entry == Head(entries)
             rest  == Tail(entries)
             key   == toLowerCase(trim(entry.name))
         IN IF IsDomEntry(entry)
            THEN genEntriesCSS(rest, claimed, file, path, app)
            ELSE IF ~isEntryApplicable(entry, file, path, app)
            THEN genEntriesCSS(rest, claimed, file, path, app)
            ELSE IF key = <<>>
            THEN genEntriesCSS(rest, claimed, file, path, app)
            ELSE IF key \in claimed
            THEN genEntriesCSS(rest, claimed, file, path, app)
            ELSE EntryBlocks(entry, key)
                 \o genEntriesCSS(rest, claimed \cup {key}, file, path, app)

\* the loop reads entry.hide of a rule that holds none (line 440, 443):
\* a TypeError leaves genAllCSS
RECURSIVE genEntriesCSSThrows(_, _, _, _, _)
genEntriesCSSThrows(entries, claimed, file, path, app) ==
    IF entries = <<>> THEN FALSE
    ELSE LET entry == Head(entries)
             rest  == Tail(entries)
             key   == toLowerCase(trim(entry.name))
         IN IF IsDomEntry(entry)
            THEN genEntriesCSSThrows(rest, claimed, file, path, app)
            ELSE IF ~isEntryApplicable(entry, file, path, app)
            THEN genEntriesCSSThrows(rest, claimed, file, path, app)
            ELSE IF key = <<>>
            THEN genEntriesCSSThrows(rest, claimed, file, path, app)
            ELSE IF key \in claimed
            THEN genEntriesCSSThrows(rest, claimed, file, path, app)
            ELSE IF entry.action # "show" /\ "hide" \notin DOMAIN entry
            THEN TRUE
            ELSE genEntriesCSSThrows(rest, claimed \cup {key}, file, path, app)

\* genAllCSS raises: s.entries is not iterable (line 426), or the loop
\* raises
genAllCSSThrows(s, file, path, app) ==
    IF Len(s.entries) > 0 /\ "number" \in DOMAIN s.entries[1] THEN TRUE
    ELSE genEntriesCSSThrows(s.entries, {}, file, path, app)

genAllCSS(s, file, path, app) ==
    <<Block("mh-hide", <<>>), Block("mh-show", <<>>)>>
    \o (IF s.hideEmptyEntry
        THEN <<Block("active-show-all", <<>>), Block("hide-empty", <<>>)>>
        ELSE <<>>)
    \o (IF ~s.hideEmptyEntryInSideDock
        THEN <<Block("sidedock-show", <<>>)>>
        ELSE <<>>)
    \o (IF trim(s.propertyHideAll) # <<>>
        THEN <<Block("hide-whole-table",
                     <<escapeCSSAttrValue(toLowerCase(trim(s.propertyHideAll)))>>)>>
        ELSE <<>>)
    \o genEntriesCSS(s.entries, {}, file, path, app)
    \o <<genCSS(string2list(s.propertiesVisible), "always-visible")>>

(***************************************************************************)
(* State                                                                   *)
(***************************************************************************)
VARIABLES
    phase,             \* "constructed" | "loaded" | "unloaded"
    settings,          \* plugin.settings
    savedData,         \* what loadData() returns: the stored record
    clipboard,         \* the text of the system clipboard
    activeFile,        \* workspace.getActiveFile(): 0 is null
    metadataCache,     \* file -> [cached, tags, frontmatter]
    isActive,          \* the main table's container carries is-active
    isMetadataFocused, \* plugin.isMetadataFocused
    propClasses,       \* surface -> displayed key -> subset of {mh-hide, mh-show}
    statusInput,       \* the text input of the main table's status element
    allPropsOpen,      \* the all-properties panel is in the DOM
    itemHidden,        \* all-properties item -> it carries mh-hide
    head,              \* the style elements #css-metadata-hider in <head>
    styleTag,          \* plugin.styleTag: an element, 0 is undefined
    isCollapsed,       \* the main table's container carries is-collapsed
    otherPane,         \* the main table of the pane that is not the active one:
                       \* [isActive, grace], its is-active class and the pending
                       \* focusout timeouts that hold its container
    timers,            \* pending setTimeout callbacks and debounce timers
    raised             \* the error the last handler let escape, or "none"

cfgVars  == <<phase, settings, savedData, clipboard>>
docVars  == <<activeFile, metadataCache>>
domVars  == <<isActive, isMetadataFocused, propClasses, statusInput,
              allPropsOpen, itemHidden, isCollapsed, otherPane>>
cssVars  == <<head, styleTag>>
vars     == <<phase, settings, savedData, clipboard, activeFile, metadataCache, isActive,
              isMetadataFocused, propClasses, statusInput, allPropsOpen,
              itemHidden, isCollapsed, otherPane, head, styleTag, timers, raised>>

\* a second pane whose table is neither marked nor held by a timeout
NoOtherPane == [isActive |-> FALSE, grace |-> 0]

Surfaces == {"table", "fileProperties"}
\* updateCSS: the pending timeouts that run updateCSS(); cssDebounce: the
\* timer of debounceUpdateCSS is pending; ready: the ready signal was given;
\* grace: the pending timeouts of the focusout handler, which run in the
\* order they were set
\* cssDue, applyDue: the time left on the timers of debounceUpdateCSS and
\* debounceApplyConditional, in units of the clock (0: not pending, 1: due
\* now)
NoTimers == [updateCSS |-> 0, cssDebounce |-> FALSE, ready |-> FALSE, grace |-> 0,
             cssDue |-> 0, applyDue |-> 0]

\* the delays of lines 124 and 125 in units of the clock
CssWindow   == 2
ApplyWindow == 1

\* a call of debounceUpdateCSS (debounce(fn, 1000, true)): the timer is
\* started, or restarted when it is pending
ArmUpdateCSS(t) == [t EXCEPT !.cssDebounce = TRUE, !.cssDue = CssWindow + 1]

\* a call of debounceApplyConditional that also restarts a pending timer
\* of debounceUpdateCSS
ArmApplyConditionalShared(t) ==
    [t EXCEPT !.applyDue = ApplyWindow + 1,
              !.cssDue = IF @ > 0 THEN CssWindow + 1 ELSE @]

\* a call of debounceApplyConditional (debounce(fn, 200, true))
ArmApplyConditional(t) == [t EXCEPT !.applyDue = ApplyWindow + 1]

\* activeFile ? getFileCache(activeFile)?.frontmatter : null
ActiveFrontmatter(file, app) ==
    IF file = 0 THEN <<>>
    ELSE IF ~app[file].cached THEN <<>>
    ELSE app[file].frontmatter

\* the input control inside a displayed element: the main table's status
\* element holds the text being edited, the side panel's the stored text
PropEl(surface, key, input, frontmatter) ==
    IF key # Str_status \/ ~input.hasInput THEN NoInput
    ELSE IF surface = "table" THEN input
    ELSE IF Str_status \in DOMAIN frontmatter /\ ~frontmatter[Str_status].isArray
         THEN Input(frontmatter[Str_status].items[1])
         ELSE Input(<<>>)

(***************************************************************************)
(* All-fields pass: main.ts lines 127-158                                  *)
(***************************************************************************)
\* the loop of lines 144-153: the winner's index (0: none matched) and how
\* many entries the loop looked at
\* the loop without its break: the last matching entry decides
hideInAllPropertiesLoopNoBreak(entries, i, key, file, path, app, frontmatterLower) ==
    LET matching == {j \in i..Len(entries) :
                        /\ matchesEntryName(key, entries[j])
                        /\ isEntryApplicable(entries[j], file, path, app)
                        /\ matchesValueCondition(entries[j], key, frontmatterLower,
                                                 NoInput)}
    IN IF matching = {} THEN [winner |-> 0, consulted |-> Len(entries)]
       ELSE [winner |-> CHOOSE j \in matching : \A k \in matching : k <= j,
             consulted |-> Len(entries)]

RECURSIVE hideInAllPropertiesLoop(_, _, _, _, _, _, _)
hideInAllPropertiesLoop(entries, i, key, file, path, app, frontmatterLower) ==
    IF i > Len(entries) THEN [winner |-> 0, consulted |-> Len(entries)]
    ELSE IF ~matchesEntryName(key, entries[i])
    THEN hideInAllPropertiesLoop(entries, i + 1, key, file, path, app, frontmatterLower)
    ELSE IF ~isEntryApplicable(entries[i], file, path, app)
    THEN hideInAllPropertiesLoop(entries, i + 1, key, file, path, app, frontmatterLower)
    ELSE IF ~matchesValueCondition(entries[i], key, frontmatterLower, NoInput)
    THEN hideInAllPropertiesLoop(entries, i + 1, key, file, path, app, frontmatterLower)
    ELSE [winner |-> i, consulted |-> i]

\* the pass when every winning hide rule marks the item, whatever its
\* allProperties target
hideInAllPropertiesAnyHide(s, file, app, open, items) ==
    IF ~open THEN items
    ELSE LET frontmatterLower == buildFrontmatterLower(ActiveFrontmatter(file, app))
         IN [item \in DOMAIN items |->
               LET key == toLowerCase(item)
                   r   == hideInAllPropertiesLoop(s.entries, 1, key, file,
                                                  PathOf(file), app, frontmatterLower)
               IN IF r.winner = 0 THEN FALSE
                  ELSE s.entries[r.winner].action = "hide"]

hideInAllProperties(s, file, app, open, items) ==
    IF ~open THEN items
    ELSE LET frontmatterLower == buildFrontmatterLower(ActiveFrontmatter(file, app))
         IN [item \in DOMAIN items |->
               LET key == toLowerCase(item)
                   r   == hideInAllPropertiesLoop(s.entries, 1, key, file,
                                                  PathOf(file), app, frontmatterLower)
               IN IF r.winner = 0 THEN FALSE
                  ELSE /\ s.entries[r.winner].action = "hide"
                       /\ s.entries[r.winner].hide.allProperties]

(***************************************************************************)
(* Live reconciler: main.ts lines 165-215                                  *)
(***************************************************************************)
\* the loop without its break: the last matching entry decides
applyConditionalHidingLoopNoBreak(entries, i, key, file, path, app, frontmatterLower, prop) ==
    LET matching == {j \in i..Len(entries) :
                        /\ matchesEntryName(key, entries[j])
                        /\ isEntryApplicable(entries[j], file, path, app)
                        /\ matchesValueCondition(entries[j], key, frontmatterLower, prop)}
    IN IF matching = {} THEN [winner |-> 0, consulted |-> Len(entries)]
       ELSE [winner |-> CHOOSE j \in matching : \A k \in matching : k <= j,
             consulted |-> Len(entries)]

RECURSIVE applyConditionalHidingLoop(_, _, _, _, _, _, _, _)
applyConditionalHidingLoop(entries, i, key, file, path, app, frontmatterLower, prop) ==
    IF i > Len(entries) THEN [winner |-> 0, consulted |-> Len(entries)]
    ELSE IF ~matchesEntryName(key, entries[i])
    THEN applyConditionalHidingLoop(entries, i + 1, key, file, path, app,
                                    frontmatterLower, prop)
    ELSE IF ~isEntryApplicable(entries[i], file, path, app)
    THEN applyConditionalHidingLoop(entries, i + 1, key, file, path, app,
                                    frontmatterLower, prop)
    ELSE IF ~matchesValueCondition(entries[i], key, frontmatterLower, prop)
    THEN applyConditionalHidingLoop(entries, i + 1, key, file, path, app,
                                    frontmatterLower, prop)
    ELSE [winner |-> i, consulted |-> i]

\* the classes of one element when the marker of the winner is added and
\* the opposite marker is left in place
ApplyEntryAddOnly(entry, classes, inFileProps, active) ==
    IF ~entry.isRegex /\ FieldTrim(entry, "valueCondition") = <<>>
    THEN classes \ {"mh-hide", "mh-show"}
    ELSE IF entry.action = "show"
    THEN classes \cup {"mh-show"}
    ELSE LET shouldHide ==
                 IF inFileProps THEN entry.hide.fileProperties
                 ELSE IF entry.hide.tableActive THEN TRUE
                 ELSE IF entry.hide.tableInactive /\ ~active THEN TRUE
                 ELSE FALSE
         IN IF shouldHide THEN classes \cup {"mh-hide"}
            ELSE classes \ {"mh-hide"}

\* lines 193-211: the classes of one element after the winner was found
ApplyEntry(entry, classes, inFileProps, active) ==
    IF ~entry.isRegex /\ FieldTrim(entry, "valueCondition") = <<>>
    THEN classes \ {"mh-hide", "mh-show"}
    ELSE IF entry.action = "show"
    THEN (classes \cup {"mh-show"}) \ {"mh-hide"}
    ELSE LET shouldHide ==
                 IF inFileProps THEN entry.hide.fileProperties
                 ELSE IF entry.hide.tableActive THEN TRUE
                 ELSE IF entry.hide.tableInactive /\ ~active THEN TRUE
                 ELSE FALSE
         IN (IF shouldHide THEN classes \cup {"mh-hide"}
             ELSE classes \ {"mh-hide"}) \ {"mh-show"}

applyConditionalHiding(s, file, app, active, input, classes) ==
    LET frontmatter      == ActiveFrontmatter(file, app)
        frontmatterLower == buildFrontmatterLower(frontmatter)
        hasDomEntries    == \E i \in DOMAIN s.entries : IsDomEntry(s.entries[i])
    IN IF ~hasDomEntries THEN classes
       ELSE [surface \in DOMAIN classes |->
              [key \in DOMAIN classes[surface] |->
                LET inFileProps == surface = "fileProperties"
                    containerActive == surface = "table" /\ active
                    r == applyConditionalHidingLoop(
                             s.entries, 1, key, file, PathOf(file), app,
                             frontmatterLower,
                             PropEl(surface, key, input, frontmatter))
                IN IF r.winner = 0 THEN classes[surface][key]
                   ELSE ApplyEntry(s.entries[r.winner], classes[surface][key],
                                   inFileProps, containerActive)]]

(***************************************************************************)
(* Lifecycle coordinator: main.ts lines 295-314                            *)
(***************************************************************************)
HeadEls(h) == {h[i].el : i \in DOMAIN h}

\* document.createElement('style'): an element other than those in use
NewElement(h) == CHOOSE n \in 1..(Len(h) + 1) : n \notin HeadEls(h)

RECURSIVE RemoveChild(_, _)
RemoveChild(h, el) ==
    IF h = <<>> THEN <<>>
    ELSE IF Head(h).el = el THEN Tail(h)
    ELSE <<Head(h)>> \o RemoveChild(Tail(h), el)

\* the element of the earlier run left in place
RemoveExistingKeep(h) == h

\* lines 302-307: the head without the element querySelector finds by id
RemoveExisting(h) == IF h # <<>> THEN RemoveChild(h, Head(h).el) ELSE h

\* lines 300-310: the new element, and the head once it replaced the old one
InstallStyle(h, text) ==
    LET el == NewElement(RemoveExisting(h))
    IN [styleTag |-> el,
        head |-> Append(RemoveExisting(h), [el |-> el, innerText |-> text])]

\* the new text added to the text of the fragment it replaces
UpdateCSSBodyAccumulate ==
    LET old == IF head = <<>> THEN <<>> ELSE head[Len(head)].innerText
        installed == InstallStyle(head,
                        old \o genAllCSS(settings, activeFile, PathOf(activeFile),
                                         metadataCache))
    IN /\ styleTag' = installed.styleTag
       /\ head' = installed.head
       /\ itemHidden' = hideInAllProperties(settings, activeFile, metadataCache,
                                            allPropsOpen, itemHidden)
       /\ propClasses' = applyConditionalHiding(settings, activeFile, metadataCache,
                                                isActive, statusInput, propClasses)
       /\ raised' = "none"

\* updateCSS(), lines 299-314.  When genAllCSS raises, the new element is
\* in the head already, without text, and neither pass runs.  (The rules
\* without a hide record in the lists of this module are literal ones, for
\* which genAllCSS raises before a pass could.)
UpdateCSSBody ==
    IF genAllCSSThrows(settings, activeFile, PathOf(activeFile), metadataCache)
    THEN /\ styleTag' = InstallStyle(head, <<>>).styleTag
         /\ head' = InstallStyle(head, <<>>).head
         /\ UNCHANGED <<itemHidden, propClasses>>
         /\ raised' = "TypeError"
    ELSE LET installed == InstallStyle(head,
                            genAllCSS(settings, activeFile, PathOf(activeFile),
                                      metadataCache))
         IN /\ styleTag' = installed.styleTag
            /\ head' = installed.head
            /\ itemHidden' = hideInAllProperties(settings, activeFile, metadataCache,
                                                 allPropsOpen, itemHidden)
            /\ propClasses' = applyConditionalHiding(settings, activeFile,
                                                     metadataCache, isActive,
                                                     statusInput, propClasses)
            /\ raised' = "none"

\* this.styleTag.parentElement.removeChild(this.styleTag), unguarded
onunloadUnguarded(h, tag) ==
    IF tag = 0 \/ tag \notin HeadEls(h) THEN [head |-> h, raised |-> "TypeError"]
    ELSE [head |-> RemoveChild(h, tag), raised |-> "none"]

\* this.styleTag?.parentElement?.removeChild(this.styleTag)
onunload(h, tag) ==
    IF tag = 0 THEN [head |-> h, raised |-> "none"]
    ELSE IF tag \notin HeadEls(h) THEN [head |-> h, raised |-> "none"]
    ELSE [head |-> RemoveChild(h, tag), raised |-> "none"]

(***************************************************************************)
(* The rule engine under its triggers.  The plugin's three evaluation      *)
(* entry points run whenever one of their triggers (main.ts lines          *)
(* 223-292) lets them; the host opens documents, stores field values,      *)
(* takes input and moves the focus in between.                             *)
(***************************************************************************)
MaxRules == 2

R_litHide == Entry(Str_status, FALSE, <<>>, <<>>, "hide", <<>>,
                   HideTargets(TRUE, TRUE, FALSE, TRUE))
R_reShow  == Entry(Str_caret_s, TRUE, <<>>, <<>>, "show", <<>>,
                   HideTargets(TRUE, FALSE, FALSE, FALSE))
R_vcHide  == Entry(Str_Status, FALSE, <<>>, <<>>, "hide", Str_CancelledDone,
                   HideTargets(TRUE, FALSE, TRUE, TRUE))
R_bad     == Entry(Str_badparen, TRUE, <<>>, <<>>, "hide", <<>>,
                   HideTargets(TRUE, TRUE, TRUE, TRUE))
R_scoped  == Entry(Str_status, FALSE, Str_Projects, <<>>, "show", <<>>,
                   HideTargets(TRUE, FALSE, FALSE, FALSE))

RuleTemplates == {R_litHide, R_reShow, R_vcHide, R_bad, R_scoped}

\* the rule lists of at most MaxRules different rules
RuleLists ==
    UNION {{l \in [1..n -> RuleTemplates] :
              \A i, j \in 1..n : l[i] = l[j] => i = j} : n \in 0..MaxRules}

StatusValues == {Scalar(Str_Done), Scalar(Str_Active)}
TypedValues  == {Str_DONE_sp}
EvalFiles    == {1, 2}
EditableFiles == {1}

FrontmatterOf(status) ==
    (Str_Status :> status) @@ (Str_private :> Scalar(Str_Active))

InitialCache ==
    [f \in Files |->
        [cached |-> TRUE,
         tags |-> IF f = 2 THEN {} ELSE {Str_hashWork},
         frontmatter |-> FrontmatterOf(Scalar(Str_Active))]]

\* the host renders one element per field of the open document
RenderProps(file) == [surface \in Surfaces |-> [key \in DisplayedKeys(file) |-> {}]]

\* the text the host shows in the status input for the stored value
RenderedInput(input, file, app) ==
    IF ~input.hasInput THEN NoInput
    ELSE PropEl("fileProperties", Str_status, input, ActiveFrontmatter(file, app))

InitEval ==
    /\ phase = "loaded"
    /\ settings \in {[DEFAULT_SETTINGS EXCEPT !.entries = l] : l \in RuleLists}
    /\ savedData = settings
    /\ clipboard = <<>>
    /\ activeFile = 0
    /\ metadataCache = InitialCache
    /\ isActive = FALSE
    /\ otherPane = NoOtherPane
    /\ isMetadataFocused = FALSE
    /\ propClasses = RenderProps(0)
    /\ statusInput \in {NoInput, Input(<<>>)}
    /\ allPropsOpen = TRUE
    /\ itemHidden = [k \in AllPropertyKeys |-> FALSE]
    /\ isCollapsed = FALSE
    /\ head = <<>>
    /\ styleTag = 0
    /\ timers = NoTimers
    /\ raised = "none"

\* updateCSS() when the generator trims and lowercases the rule names in
\* the rule list itself
RunUpdateCSSInPlace ==
    /\ phase = "loaded"
    /\ UpdateCSSBody
    /\ settings' = [settings EXCEPT !.entries =
                        [i \in DOMAIN @ |->
                            [@[i] EXCEPT !.name = toLowerCase(trim(@))]]]
    /\ UNCHANGED <<phase, savedData, clipboard, docVars, otherPane, isActive,
                   isMetadataFocused, statusInput, allPropsOpen, isCollapsed,
                   timers>>

\* updateCSS(), run by the ready signal's, a document-open's or the
\* configuration debounce's timer
RunUpdateCSS ==
    /\ phase = "loaded"
    /\ UpdateCSSBody
    /\ UNCHANGED <<cfgVars, docVars, otherPane, isActive, isMetadataFocused, statusInput,
                   allPropsOpen, isCollapsed, timers>>

\* applyConditionalHiding(), run by the live-path debounce or an
\* active-leaf-change timer
RunApplyConditionalHiding ==
    /\ phase = "loaded"
    /\ propClasses' = applyConditionalHiding(settings, activeFile, metadataCache,
                                             isActive, statusInput, propClasses)
    /\ raised' = "none"
    /\ UNCHANGED <<cfgVars, docVars, otherPane, isActive, isMetadataFocused, statusInput,
                   allPropsOpen, itemHidden, isCollapsed, cssVars, timers>>

\* hideInAllProperties(), run by an active-leaf-change timer
RunHideInAllProperties ==
    /\ phase = "loaded"
    /\ itemHidden' = hideInAllProperties(settings, activeFile, metadataCache,
                                         allPropsOpen, itemHidden)
    /\ raised' = "none"
    /\ UNCHANGED <<cfgVars, docVars, otherPane, isActive, isMetadataFocused, propClasses,
                   statusInput, allPropsOpen, isCollapsed, cssVars, timers>>

\* the host makes file the active document (0: closes the last one) and
\* shows its fields, in new elements or in the ones it already had
OpenDocument(file) ==
    /\ phase = "loaded"
    /\ file # activeFile
    /\ activeFile' = file
    /\ \/ propClasses' = RenderProps(file)
       \/ /\ DisplayedKeys(file) = DisplayedKeys(activeFile)
          /\ propClasses' = propClasses
    /\ statusInput' = RenderedInput(statusInput, file, metadataCache)
    /\ isActive' = FALSE
    /\ isMetadataFocused' = FALSE
    /\ UNCHANGED <<cfgVars, metadataCache, allPropsOpen, itemHidden, isCollapsed,
                   otherPane, cssVars, timers, raised>>

\* the host stores a new status value for the open document
StoreValue(value) ==
    /\ phase = "loaded"
    /\ activeFile \in EditableFiles
    /\ metadataCache' = [metadataCache EXCEPT
                            ![activeFile].frontmatter = FrontmatterOf(value)]
    /\ statusInput' = RenderedInput(statusInput, activeFile, metadataCache')
    /\ UNCHANGED <<cfgVars, activeFile, otherPane, isActive, isMetadataFocused, propClasses,
                   allPropsOpen, itemHidden, isCollapsed, cssVars, timers, raised>>

\* the user types text into the status input of the main table
TypeValue(text) ==
    /\ phase = "loaded"
    /\ activeFile # 0
    /\ statusInput.hasInput
    /\ statusInput' = Input(text)
    /\ UNCHANGED <<cfgVars, docVars, otherPane, isActive, isMetadataFocused, propClasses,
                   allPropsOpen, itemHidden, isCollapsed, cssVars, timers, raised>>

\* the focusin handler, main.ts lines 234-254
FocusIn(inside) ==
    /\ phase = "loaded"
    /\ activeFile # 0
    /\ IF inside
       THEN isActive' = TRUE /\ isMetadataFocused' = TRUE
       ELSE IF isMetadataFocused
            THEN isMetadataFocused' = FALSE /\ isActive' = FALSE
            ELSE UNCHANGED <<isActive, isMetadataFocused>>
    /\ raised' = "none"
    /\ UNCHANGED <<cfgVars, docVars, propClasses, statusInput, allPropsOpen,
                   itemHidden, isCollapsed, otherPane, cssVars, timers>>

Next ==
    \/ RunUpdateCSS
    \/ RunApplyConditionalHiding
    \/ RunHideInAllProperties
    \/ \E file \in EvalFiles \cup {0} : OpenDocument(file)
    \/ \E value \in StatusValues : StoreValue(value)
    \/ \E text \in TypedValues : TypeValue(text)
    \/ \E inside \in BOOLEAN : FocusIn(inside)

Spec == InitEval /\ [][Next]_vars

(***************************************************************************)
(* Properties of the rule engine                                           *)
(***************************************************************************)
CurrentFrontmatterLower ==
    buildFrontmatterLower(ActiveFrontmatter(activeFile, metadataCache))

CurrentPropEl(surface, key) ==
    PropEl(surface, key, statusInput, ActiveFrontmatter(activeFile, metadataCache))

\* name match, scope applicability and value condition all hold
MatchesAll(entry, key, propEl) ==
    /\ matchesEntryName(key, entry)
    /\ isEntryApplicable(entry, activeFile, PathOf(activeFile), metadataCache)
    /\ matchesValueCondition(entry, key, CurrentFrontmatterLower, propEl)

LowestMatch(entries, key, propEl) ==
    LET matching == {i \in DOMAIN entries : MatchesAll(entries[i], key, propEl)}
    IN IF matching = {} THEN 0
       ELSE CHOOSE i \in matching : \A j \in matching : i <= j

LiveWinner(entries, surface, key) ==
    applyConditionalHidingLoop(entries, 1, key, activeFile, PathOf(activeFile),
                               metadataCache, CurrentFrontmatterLower,
                               CurrentPropEl(surface, key))

AllFieldsWinner(entries, key) ==
    hideInAllPropertiesLoop(entries, 1, key, activeFile, PathOf(activeFile),
                            metadataCache, CurrentFrontmatterLower)

\* C1: on the live path and in the all-fields pass, resolution of a key
\* selects the lowest-indexed rule whose name match, scope and value
\* condition all hold, looks at no rule after it, and yields no winner
\* exactly when no rule satisfies all three.
C1_FirstMatchWins ==
    \A key \in KeyUniverse :
        /\ \A surface \in Surfaces :
              LET r == LiveWinner(settings.entries, surface, key)
              IN /\ r.winner = LowestMatch(settings.entries, key,
                                           CurrentPropEl(surface, key))
                 /\ r.winner # 0 => r.consulted = r.winner
        /\ LET r == AllFieldsWinner(settings.entries, key)
           IN /\ r.winner = LowestMatch(settings.entries, key, NoInput)
              /\ r.winner # 0 => r.consulted = r.winner

\* two rules match the displayed status field, the first a live-path show
\* rule and the second a hide rule, and the pass has marked the element
C1_Witness ==
    /\ activeFile # 0
    /\ Len(settings.entries) = 2
    /\ MatchesAll(settings.entries[1], Str_status, CurrentPropEl("table", Str_status))
    /\ MatchesAll(settings.entries[2], Str_status, CurrentPropEl("table", Str_status))
    /\ IsDomEntry(settings.entries[1])
    /\ settings.entries[1].action = "show"
    /\ settings.entries[2].action = "hide"
    /\ propClasses["table"][Str_status] = {"mh-show"}

PerKeyKinds == {"show", "hide-file-properties", "hide", "hide-active"}

HasEntryBlock(text, key) ==
    \E i \in DOMAIN text :
        text[i].kind \in PerKeyKinds /\ text[i].keys = <<escapeCSSAttrValue(key)>>

InstalledText == head[Len(head)].innerText

CurrentCSS == genAllCSS(settings, activeFile, PathOf(activeFile), metadataCache)

\* C2: the installed fragment holds a block for a displayed key only if the
\* rule that wins resolution of that key over the whole rule list has no
\* regex and no value condition.
C2_BlockOnlyForLiteralWinner ==
    (activeFile # 0 /\ head # <<>> /\ InstalledText = CurrentCSS) =>
        \A key \in DisplayedKeys(activeFile) :
            HasEntryBlock(InstalledText, key) =>
                LET r == LiveWinner(settings.entries, "table", key)
                IN r.winner # 0 /\ ~IsDomEntry(settings.entries[r.winner])

RemoveAt(list, i) == SubSeq(list, 1, i - 1) \o SubSeq(list, i + 1, Len(list))

\* the index in the whole list of the rule at index w of the list without i
Unshift(w, i) == IF w = 0 THEN 0 ELSE IF w < i THEN w ELSE w + 1

\* C5: a regex rule with a malformed pattern matches no key, no handler
\* lets an error escape, and each key resolves on both paths to the rule it
\* resolves to with the malformed rule taken out of the list.
C5_MalformedPatternMatchesNothing ==
    /\ raised = "none"
    /\ \A i \in DOMAIN settings.entries :
          (settings.entries[i].isRegex /\ RegExpThrows(settings.entries[i].name)) =>
             \A key \in KeyUniverse :
                /\ ~matchesEntryName(key, settings.entries[i])
                /\ \A surface \in Surfaces :
                      LiveWinner(settings.entries, surface, key).winner
                        = Unshift(LiveWinner(RemoveAt(settings.entries, i),
                                             surface, key).winner, i)
                /\ AllFieldsWinner(settings.entries, key).winner
                     = Unshift(AllFieldsWinner(RemoveAt(settings.entries, i),
                                               key).winner, i)

\* the malformed rule comes first, a later rule won the status field and
\* both passes have marked what they display
C5_Witness ==
    /\ activeFile # 0
    /\ Len(settings.entries) = 2
    /\ settings.entries[1] = R_bad
    /\ LiveWinner(settings.entries, "table", Str_status).winner = 2
    /\ propClasses["table"][Str_status] = {"mh-show"}
    /\ AllFieldsWinner(<<R_bad, R_litHide>>, Str_status).winner = 2

\* C8: a regeneration started while the installed fragment is the
\* generator's output for the current configuration and document leaves a
\* fragment with the same text.
C8_RegenerateIdempotent ==
    [][(RunUpdateCSS /\ head # <<>> /\ InstalledText = CurrentCSS)
         => head'[Len(head')].innerText = InstalledText]_vars

\* a fragment with a per-key block is installed and is the current output
C8_Witness ==
    /\ activeFile # 0
    /\ head # <<>>
    /\ InstalledText = CurrentCSS
    /\ HasEntryBlock(InstalledText, Str_status)

(***************************************************************************)
(* The matcher on its own: one rule, and a document, a stored value and    *)
(* an input text drawn from the cases of the scope and value checks; the   *)
(* two passes apply the matcher to them.  Every item of the all-fields     *)
(* panel starts with the marker an earlier rule list left on it.           *)
(***************************************************************************)
ProbeFolders  == {Str_Projects, Str_ProjectsSlash}
ProbeTags     == {Str_work, Str_hashWork}
ProbeTagSets  == {{}, {Str_hashWork}, {Str_hashPriv}}
ProbeValues   == {Str_cancelled, Str_DONE_sp, Str_Done, Str_cancel}

ScopedRule(folder, tag) ==
    Entry(Str_status, TRUE, folder, tag, "hide", <<>>,
          HideTargets(TRUE, TRUE, TRUE, TRUE))
ValueRule ==
    Entry(Str_status, FALSE, <<>>, <<>>, "hide", Str_CancelledDone,
          HideTargets(TRUE, FALSE, TRUE, TRUE))

InitMatcher ==
    /\ phase = "loaded"
    /\ isActive = FALSE
    /\ otherPane = NoOtherPane
    /\ isMetadataFocused = FALSE
    /\ allPropsOpen = TRUE
    /\ itemHidden = [k \in AllPropertyKeys |-> TRUE]
    /\ isCollapsed = FALSE
    /\ head = <<>>
    /\ styleTag = 0
    /\ timers = NoTimers
    /\ raised = "none"
    /\ \/ /\ settings \in {[DEFAULT_SETTINGS EXCEPT !.entries = <<ScopedRule(f, t)>>] :
                              f \in ProbeFolders, t \in ProbeTags}
          /\ activeFile \in Files \cup {0}
          /\ \E tags \in ProbeTagSets, cached \in BOOLEAN :
                metadataCache =
                    [f \in Files |->
                        [cached |-> cached, tags |-> tags,
                         frontmatter |-> FrontmatterOf(Scalar(Str_Active))]]
          /\ statusInput = NoInput
       \/ /\ settings = [DEFAULT_SETTINGS EXCEPT !.entries = <<ValueRule>>]
          /\ activeFile = 1
          /\ \E stored \in {Scalar(v) : v \in ProbeValues}
                           \cup {List(<<Str_Active, v>>) : v \in ProbeValues} :
                metadataCache =
                    [f \in Files |->
                        [cached |-> TRUE, tags |-> {},
                         frontmatter |-> FrontmatterOf(stored)]]
          /\ statusInput \in {NoInput} \cup {Input(v) : v \in ProbeValues}
    /\ savedData = settings
    /\ clipboard = <<>>
    /\ propClasses = RenderProps(activeFile)

NextMatcher ==
    \/ RunApplyConditionalHiding
    \/ RunHideInAllProperties

SpecMatcher == InitMatcher /\ [][NextMatcher]_vars

BothScopes(entry) ==
    FieldTrim(entry, "folderFilter") # <<>> /\ FieldTrim(entry, "tagFilter") # <<>>

\* the document path starts with the folder scope, a separator added to
\* the scope when it ends with none
InFolder(entry, file) ==
    LET folder == trim(entry.folderFilter)
        prefix == IF folder[Len(folder)] = "/" THEN folder ELSE Append(folder, "/")
    IN file # 0 /\ \E n \in 0..Len(PathOf(file)) : SubSeq(PathOf(file), 1, n) = prefix

\* the document's tags hold the tag scope, compared without case and with
\* the marker added to the scope when it starts with none
HasTag(entry, file) ==
    LET tag    == trim(entry.tagFilter)
        marked == IF Head(tag) = "#" THEN tag ELSE <<"#">> \o tag
    IN /\ file # 0
       /\ metadataCache[file].cached
       /\ \E t \in metadataCache[file].tags : toLowerCase(t) = toLowerCase(marked)

\* C3: a rule with a folder scope and a tag scope applies to the open
\* document only if its path is under the folder and its tags hold the tag,
\* and applies to every document for which both hold.
C3_ScopeIsConjunction ==
    \A i \in DOMAIN settings.entries :
        BothScopes(settings.entries[i]) =>
            (isEntryApplicable(settings.entries[i], activeFile, PathOf(activeFile),
                               metadataCache)
               <=> (InFolder(settings.entries[i], activeFile)
                      /\ HasTag(settings.entries[i], activeFile)))

\* a document under the folder without the tag, or with the tag outside
\* the folder, whose status item a pass has cleared of its marker
C3_Witness ==
    /\ Len(settings.entries) = 1
    /\ BothScopes(settings.entries[1])
    /\ InFolder(settings.entries[1], activeFile) # HasTag(settings.entries[1], activeFile)
    /\ ~itemHidden[Str_Status]

StoredRaw ==
    LET fm == ActiveFrontmatter(activeFile, metadataCache)
    IN IF Str_Status \in DOMAIN fm
       THEN {fm[Str_Status].items[i] : i \in DOMAIN fm[Str_Status].items}
       ELSE {}

\* C4: the condition "Cancelled, Done" is satisfied by the values
\* "cancelled", " DONE " and "Done" and not by "cancel", for a value read
\* from the edit control and for one read from the stored field map.
C4_ValueConditionTrimsAndFolds ==
    \A i \in DOMAIN settings.entries :
        settings.entries[i].valueCondition = Str_CancelledDone =>
            /\ statusInput.hasInput =>
                  (matchesValueCondition(settings.entries[i], Str_status,
                                         CurrentFrontmatterLower, statusInput)
                     <=> statusInput.value \in {Str_cancelled, Str_DONE_sp, Str_Done})
            /\ matchesValueCondition(settings.entries[i], Str_status,
                                     CurrentFrontmatterLower, NoInput)
                 <=> StoredRaw \cap {Str_cancelled, Str_DONE_sp, Str_Done} # {}

(***************************************************************************)
(* Configuration: main.ts lines 316-354 (load and migration), 484-503      *)
(* (import) and 631-823 (the rule list of the settings tab).               *)
(***************************************************************************)
\* null, as loadData() returns it when nothing was ever stored, and
\* undefined, as plugin.settings is before onload
NullData == <<>>

\* Object.assign(target, source): the fields of source over those of target
ObjectAssign(target, source) ==
    [k \in DOMAIN target \cup DOMAIN source |->
        IF k \in DOMAIN source THEN source[k] ELSE target[k]]

\* the defaults of the five fields over each entry
FillEntryDefaultsOver(entries) ==
    [i \in DOMAIN entries |->
        ObjectAssign(entries[i],
                     [isRegex |-> FALSE, folderFilter |-> <<>>, tagFilter |-> <<>>,
                      action |-> "hide", valueCondition |-> <<>>])]

\* lines 320-322 and 496-498: each entry over the defaults of the fields
\* older data lacks
FillEntryDefaults(entries) ==
    [i \in DOMAIN entries |->
        ObjectAssign([isRegex |-> FALSE, folderFilter |-> <<>>, tagFilter |-> <<>>,
                      action |-> "hide", valueCondition |-> <<>>],
                     entries[i])]

\* [...new Set(list)]: the first occurrence of each item, in order
RECURSIVE SetInOrder(_, _)
SetInOrder(list, seen) ==
    IF list = <<>> THEN <<>>
    ELSE IF includes(seen, Head(list)) THEN SetInOrder(Tail(list), seen)
    ELSE <<Head(list)>> \o SetInOrder(Tail(list), Append(seen, Head(list)))

\* lines 334-349: the rules made of the two lists of version 0
UpgradedEntries(s) ==
    LET propertiesInvisible == string2list(s.propertiesInvisible)
        propertiesInvisibleAlways == string2list(s.propertiesInvisibleAlways)
        inter == SelectSeq(propertiesInvisible,
                           LAMBDA x : includes(propertiesInvisibleAlways, x))
        union == SetInOrder(propertiesInvisible \o propertiesInvisibleAlways, <<>>)
        diff1 == SelectSeq(union, LAMBDA x : ~includes(propertiesInvisible, x))
        diff2 == SelectSeq(union, LAMBDA x : ~includes(propertiesInvisibleAlways, x))
    IN [i \in DOMAIN inter |->
           Entry(inter[i], FALSE, <<>>, <<>>, "hide", <<>>,
                 HideTargets(TRUE, TRUE, FALSE, FALSE))]
       \o [i \in DOMAIN diff1 |->
           Entry(diff1[i], FALSE, <<>>, <<>>, "hide", <<>>,
                 HideTargets(TRUE, TRUE, FALSE, FALSE))]
       \o [i \in DOMAIN diff2 |->
           Entry(diff2[i], FALSE, <<>>, <<>>, "hide", <<>>,
                 HideTargets(TRUE, FALSE, FALSE, FALSE))]

\* a field that is present and not the empty string
Truthy(s, field) == field \in DOMAIN s /\ s[field] # <<>>

\* upgradeSettingsToVersion1(): the settings it leaves, and whether it saved
upgradeSettingsToVersion1(s) ==
    IF /\ Len(s.entries) = 0
       /\ (Truthy(s, "propertiesInvisible") \/ Truthy(s, "propertiesInvisibleAlways"))
    THEN [settings |-> [s EXCEPT !.entries = UpgradedEntries(s)], saved |-> TRUE]
    ELSE [settings |-> s, saved |-> FALSE]

\* loadSettings(): the settings it leaves, and the stored record
loadSettings(data) ==
    LET upgraded == upgradeSettingsToVersion1(ObjectAssign(DEFAULT_SETTINGS, data))
    IN [settings |-> [upgraded.settings EXCEPT !.entries = FillEntryDefaults(@)],
        savedData |-> IF upgraded.saved THEN upgraded.settings ELSE data]

HideKeys == {"tableInactive", "tableActive", "fileProperties", "allProperties"}

\* the toggled target alone, the other targets as they were
onChangeHideNoCascade(hide, key, value) == [hide EXCEPT ![key] = value]

\* lines 724-735: the hide targets of a rule once the toggle of key has
\* changed to value
onChangeHide(hide, key, value) ==
    LET set == [hide EXCEPT ![key] = value]
        off == IF key = "tableInactive" /\ value = FALSE
               THEN [set EXCEPT !.tableActive = FALSE]
               ELSE set
    IN IF key = "tableActive" /\ value = TRUE
       THEN [off EXCEPT !.tableInactive = TRUE]
       ELSE off

\* [entries[i], entries[j]] = [entries[j], entries[i]]
Swap(entries, i, j) == [entries EXCEPT ![i] = entries[j], ![j] = entries[i]]

\* entries.splice(index, 1)
Splice(entries, i) == SubSeq(entries, 1, i - 1) \o SubSeq(entries, i + 1, Len(entries))

\* the entry the add-rule button pushes, lines 642-654
NewEntry ==
    Entry(<<>>, FALSE, <<>>, <<>>, "hide", <<>>,
          HideTargets(TRUE, FALSE, FALSE, FALSE))

(***************************************************************************)
(* JSON text: main.ts lines 489 (JSON.parse) and 543 (JSON.stringify).  A  *)
(* text is the sequence of its tokens; a number n is held as JSNumber(n),  *)
(* a value that is no array and has no map method.                         *)
(***************************************************************************)
Tok(t)  == [t |-> t]
TStr(v) == [t |-> "str", v |-> v]
TNum(n) == [t |-> "num", v |-> n]

JSNumber(n) == <<[number |-> n]>>

\* Array.isArray(v), for the values the entries field can hold
IsArray(v) == IF v = <<>> THEN TRUE ELSE "number" \notin DOMAIN v[1]

BooleanFields ==
    {"autoFold", "hideEmptyEntry", "hideEmptyEntryInSideDock", "isRegex",
     "tableInactive", "tableActive", "fileProperties", "allProperties"}

\* the fields in the order JSON.stringify writes those an object has
FieldOrder ==
    <<"autoFold", "hideEmptyEntry", "hideEmptyEntryInSideDock",
      "propertiesVisible", "propertyHideAll", "entries", "propertiesInvisible",
      "propertiesInvisibleAlways", "isRegex", "folderFilter", "tagFilter",
      "action", "valueCondition", "name", "hide", "tableInactive",
      "tableActive", "fileProperties", "allProperties">>

\* the tokens of the items with a comma between two of them
RECURSIVE JoinComma(_)
JoinComma(texts) ==
    IF texts = <<>> THEN <<>>
    ELSE IF Len(texts) = 1 THEN texts[1]
    ELSE texts[1] \o <<Tok(",")>> \o JoinComma(Tail(texts))

Reverse(list) == [i \in DOMAIN list |-> list[Len(list) + 1 - i]]

RECURSIVE StringifyObject(_)
\* the items of an array written last to first
StringifyItemsReversed(items) ==
    JoinComma([i \in DOMAIN items |-> StringifyObject(Reverse(items)[i])])

\* the items of an array, in order
StringifyItems(items) ==
    JoinComma([i \in DOMAIN items |-> StringifyObject(items[i])])

\* the text of the value of one field
StringifyValue(field, v) ==
    IF field \in BooleanFields THEN <<Tok(IF v THEN "true" ELSE "false")>>
    ELSE IF field = "hide" THEN StringifyObject(v)
    ELSE IF field = "entries"
         THEN IF IsArray(v)
              THEN <<Tok("[")>> \o StringifyItems(v) \o <<Tok("]")>>
              ELSE <<TNum(v[1].number)>>
    ELSE <<TStr(v)>>

StringifyObject(obj) ==
    LET fields == SelectSeq(FieldOrder, LAMBDA f : f \in DOMAIN obj)
    IN <<Tok("{")>>
       \o JoinComma([i \in DOMAIN fields |->
                        <<TStr(fields[i]), Tok(":")>>
                        \o StringifyValue(fields[i], obj[fields[i]])])
       \o <<Tok("}")>>

\* JSON.stringify(this.plugin.settings, null, 2)
JSONStringify(s) == StringifyObject(s)

ParseFail == [ok |-> FALSE]
Parsed(kind, value, rest) == [ok |-> TRUE, kind |-> kind, value |-> value, rest |-> rest]

RECURSIVE ParseValue(_)
RECURSIVE ParseMembers(_, _)
RECURSIVE ParseItems(_, _)

\* the members of an object after "{" or ",": a later member with the name
\* of an earlier one replaces it
ParseMembers(toks, acc) ==
    IF Len(toks) < 3 THEN ParseFail
    ELSE IF toks[1].t # "str" \/ toks[2].t # ":" THEN ParseFail
    ELSE LET v == ParseValue(SubSeq(toks, 3, Len(toks)))
         IN IF ~v.ok THEN ParseFail
            ELSE IF v.rest = <<>> THEN ParseFail
            ELSE LET members == ObjectAssign(acc, toks[1].v :> v.value)
                 IN IF Head(v.rest).t = "}"
                    THEN Parsed("object", members, Tail(v.rest))
                    ELSE IF Head(v.rest).t = ","
                    THEN ParseMembers(Tail(v.rest), members)
                    ELSE ParseFail

\* the items of an array after "[" or ","
ParseItems(toks, acc) ==
    LET v == ParseValue(toks)
    IN IF ~v.ok THEN ParseFail
       ELSE IF v.rest = <<>> THEN ParseFail
       ELSE IF Head(v.rest).t = "]"
       THEN Parsed("array", Append(acc, v.value), Tail(v.rest))
       ELSE IF Head(v.rest).t = ","
       THEN ParseItems(Tail(v.rest), Append(acc, v.value))
       ELSE ParseFail

ParseValue(toks) ==
    IF toks = <<>> THEN ParseFail
    ELSE LET h == Head(toks)
             rest == Tail(toks)
         IN IF h.t = "str" THEN Parsed("string", h.v, rest)
            ELSE IF h.t = "num" THEN Parsed("number", JSNumber(h.v), rest)
            ELSE IF h.t = "true" THEN Parsed("boolean", TRUE, rest)
            ELSE IF h.t = "false" THEN Parsed("boolean", FALSE, rest)
            ELSE IF h.t = "{"
            THEN IF rest # <<>> /\ Head(rest).t = "}"
                 THEN Parsed("object", <<>>, Tail(rest))
                 ELSE ParseMembers(rest, <<>>)
            ELSE IF h.t = "["
            THEN IF rest # <<>> /\ Head(rest).t = "]"
                 THEN Parsed("array", <<>>, Tail(rest))
                 ELSE ParseItems(rest, <<>>)
            ELSE ParseFail

\* JSON.parse(text): the kind of the value and the value, or "throws"
JSONParse(text) ==
    LET v == ParseValue(text)
    IN IF ~v.ok THEN [kind |-> "throws"]
       ELSE IF v.rest # <<>> THEN [kind |-> "throws"]
       ELSE [kind |-> v.kind, value |-> v.value]

\* lines 488-493: the handler has assigned the fields of the parsed value
\* to the settings
ImportAssigns(imported) == imported.kind = "object"

\* line 496: entries.map exists
ImportMaps(s, imported) ==
    ImportAssigns(imported) /\ IsArray(ObjectAssign(s, imported.value).entries)

\* lines 488-499: what JSON.parse made of the pasted text ("throws": it
\* raised) to the settings the handler leaves, whether it ran to its end
\* or its catch took over
ImportSettings(s, imported) ==
    IF ~ImportAssigns(imported) THEN s
    ELSE IF ~ImportMaps(s, imported) THEN ObjectAssign(s, imported.value)
    ELSE [ObjectAssign(s, imported.value) EXCEPT !.entries = FillEntryDefaults(@)]

(***************************************************************************)
(* The configuration under its handlers: the plugin loads what an earlier  *)
(* session stored, and the user works on the rule list in the settings tab *)
(* and imports pasted settings.                                            *)
(***************************************************************************)
LegacyData(invisible, always) ==
    [autoFold |-> FALSE, hideEmptyEntry |-> TRUE, propertiesVisible |-> <<>>,
     propertiesInvisible |-> invisible, propertiesInvisibleAlways |-> always]

\* what earlier sessions stored: nothing, the two lists of version 0, a
\* rule list written before the newer fields existed, a current rule list
SavedCandidates ==
    {NullData,
     LegacyData(Str_status, Str_status),
     LegacyData(Str_status, <<>>),
     LegacyData(<<>>, Str_status),
     [DEFAULT_SETTINGS EXCEPT
         !.entries = <<[name |-> Str_status,
                        hide |-> HideTargets(TRUE, TRUE, FALSE, FALSE)]>>],
     [DEFAULT_SETTINGS EXCEPT !.entries = <<R_litHide>>]}

TypedNames == {<<" ">> \o Str_status}

\* what JSON.parse makes of the pasted text
ImportCandidates ==
    {[kind |-> "throws"],
     [kind |-> "array"],
     [kind |-> "object",
      value |-> [entries |-> <<[name |-> Str_status, action |-> "show",
                                hide |-> HideTargets(TRUE, FALSE, FALSE, FALSE)]>>]],
     [kind |-> "object",
      value |-> [entries |-> <<[name |-> Str_status,
                                hide |-> HideTargets(FALSE, TRUE, FALSE, FALSE)]>>]]}

InitSettings ==
    /\ phase = "constructed"
    /\ settings = NullData
    /\ savedData \in SavedCandidates
    /\ clipboard = <<>>
    /\ activeFile = 0
    /\ metadataCache = InitialCache
    /\ isActive = FALSE
    /\ otherPane = NoOtherPane
    /\ isMetadataFocused = FALSE
    /\ propClasses = RenderProps(0)
    /\ statusInput = NoInput
    /\ allPropsOpen = FALSE
    /\ itemHidden = [k \in AllPropertyKeys |-> FALSE]
    /\ isCollapsed = FALSE
    /\ head = <<>>
    /\ styleTag = 0
    /\ timers = NoTimers
    /\ raised = "none"

\* saveSettings() and debounceUpdateCSS() after a change of the settings
SaveAndDebounce ==
    /\ savedData' = settings'
    /\ timers' = ArmUpdateCSS(timers)
    /\ raised' = "none"
    /\ UNCHANGED <<phase, clipboard, docVars, domVars, cssVars>>

\* onload(), lines 217-293: the settings are loaded and the handlers
\* registered
OnLoad ==
    /\ phase = "constructed"
    /\ phase' = "loaded"
    /\ settings' = loadSettings(savedData).settings
    /\ savedData' = loadSettings(savedData).savedData
    /\ raised' = "none"
    /\ UNCHANGED <<clipboard, docVars, domVars, cssVars, timers>>

\* the add-rule button, lines 635-657
AddEntry ==
    /\ phase = "loaded"
    /\ Len(settings.entries) < MaxRules
    /\ IF \E i \in DOMAIN settings.entries : settings.entries[i].name = <<>>
       THEN UNCHANGED <<settings, savedData>>
       ELSE /\ settings' = [settings EXCEPT !.entries = Append(@, NewEntry)]
            /\ savedData' = settings'
    /\ raised' = "none"
    /\ UNCHANGED <<phase, clipboard, docVars, domVars, cssVars, timers>>

\* the name input of rule index, lines 676-682
SetName(index, newValue) ==
    /\ phase = "loaded"
    /\ index \in DOMAIN settings.entries
    /\ settings' = [settings EXCEPT !.entries[index].name = trim(newValue)]
    /\ SaveAndDebounce

\* a click on the toggle of one hide target of rule index, lines 715-742:
\* the toggle shows the target's value and changes to the other one
ToggleHide(index, key) ==
    /\ phase = "loaded"
    /\ IsArray(settings.entries)
    /\ index \in DOMAIN settings.entries
    /\ settings.entries[index].action # "show"
    /\ settings' = [settings EXCEPT !.entries[index].hide =
                        onChangeHide(@, key, ~@[key])]
    /\ SaveAndDebounce

\* the arrow-up button of rule index, lines 785-795
MoveUp(index) ==
    /\ phase = "loaded"
    /\ index \in DOMAIN settings.entries
    /\ index # 1
    /\ settings' = [settings EXCEPT !.entries = Swap(@, index - 1, index)]
    /\ SaveAndDebounce

\* the arrow-down button of rule index, lines 799-809
MoveDown(index) ==
    /\ phase = "loaded"
    /\ index \in DOMAIN settings.entries
    /\ index < Len(settings.entries)
    /\ settings' = [settings EXCEPT !.entries = Swap(@, index, index + 1)]
    /\ SaveAndDebounce

\* the delete button of rule index, lines 814-822
DeleteEntry(index) ==
    /\ phase = "loaded"
    /\ index \in DOMAIN settings.entries
    /\ settings' = [settings EXCEPT !.entries = Splice(@, index)]
    /\ SaveAndDebounce

\* the Import button of the modal, lines 487-503
Import(imported) ==
    /\ phase = "loaded"
    /\ settings' = ImportSettings(settings, imported)
    /\ IF ImportMaps(settings, imported)
       THEN SaveAndDebounce
       ELSE UNCHANGED <<phase, savedData, clipboard, docVars, domVars, cssVars,
                        timers, raised>>

NextSettings ==
    \/ OnLoad
    \/ AddEntry
    \/ \E index \in 1..MaxRules, newValue \in TypedNames : SetName(index, newValue)
    \/ \E index \in 1..MaxRules, key \in HideKeys : ToggleHide(index, key)
    \/ \E index \in 1..MaxRules : MoveUp(index)
    \/ \E index \in 1..MaxRules : MoveDown(index)
    \/ \E index \in 1..MaxRules : DeleteEntry(index)
    \/ \E imported \in ImportCandidates : Import(imported)

SpecSettings == InitSettings /\ [][NextSettings]_vars

\* C6: in every loaded configuration, a rule whose always-hide target is
\* set has its hide-when-inactive target set.
C6_AlwaysImpliesInactive ==
    phase = "loaded" =>
        \A i \in DOMAIN settings.entries :
            settings.entries[i].hide.tableActive
                => settings.entries[i].hide.tableInactive

\* C7: the toggle that turns always-hide on leaves hide-when-inactive on,
\* the toggle that turns hide-when-inactive off leaves always-hide off, and
\* either one leaves the rule's two other targets and every other rule as
\* they were.
C7_ToggleCascade ==
    [][\A index \in 1..MaxRules, key \in {"tableInactive", "tableActive"} :
          ToggleHide(index, key) =>
             LET old == settings.entries[index].hide
                 new == settings'.entries[index].hide
             IN /\ (key = "tableActive" /\ ~old.tableActive)
                      => (new.tableActive /\ new.tableInactive)
                /\ (key = "tableInactive" /\ old.tableInactive)
                      => (~new.tableInactive /\ ~new.tableActive)
                /\ ((key = "tableActive" /\ ~old.tableActive)
                      \/ (key = "tableInactive" /\ old.tableInactive))
                      => /\ new.fileProperties = old.fileProperties
                         /\ new.allProperties = old.allProperties
                         /\ Len(settings'.entries) = Len(settings.entries)
                         /\ \A j \in DOMAIN settings.entries :
                               j # index => settings'.entries[j] = settings.entries[j]
      ]_vars

\* the rule the add-rule button made, its always-hide target turned on by
\* its toggle, next to another rule
C7_Witness ==
    /\ phase = "loaded"
    /\ Len(settings.entries) = 2
    /\ settings.entries[2].name = <<>>
    /\ settings.entries[2].hide.tableActive
    /\ settings.entries[2].hide.tableInactive
    /\ settings.entries[2].hide.allProperties

(***************************************************************************)
(* The lifecycle: the plugin loads, regenerates the fragment 100 ms after  *)
(* the ready signal and after every document-open event and one second     *)
(* after the last change of a setting, and unloads.  The host does not     *)
(* cancel a pending timeout or debounce when the plugin unloads.           *)
(***************************************************************************)
MaxTimers == 2

L_scopedHide == Entry(Str_status, FALSE, Str_Projects, <<>>, "hide", <<>>,
                      HideTargets(TRUE, TRUE, FALSE, TRUE))

LifecycleSaved ==
    {NullData,
     [DEFAULT_SETTINGS EXCEPT !.autoFold = TRUE, !.entries = <<R_litHide>>],
     [DEFAULT_SETTINGS EXCEPT !.entries = <<L_scopedHide>>]}

InitLifecycle ==
    /\ phase = "constructed"
    /\ settings = NullData
    /\ savedData \in LifecycleSaved
    /\ clipboard = <<>>
    /\ activeFile = 0
    /\ metadataCache = InitialCache
    /\ isActive = FALSE
    /\ otherPane = NoOtherPane
    /\ isMetadataFocused = FALSE
    /\ propClasses = RenderProps(0)
    /\ statusInput = NoInput
    /\ allPropsOpen = TRUE
    /\ itemHidden = [k \in AllPropertyKeys |-> FALSE]
    /\ isCollapsed = FALSE
    /\ head = <<>>
    /\ styleTag = 0
    /\ timers = NoTimers
    /\ raised = "none"

\* the callback of onLayoutReady, lines 223-225
LayoutReady ==
    /\ phase # "constructed"
    /\ ~timers.ready
    /\ timers' = [timers EXCEPT !.ready = TRUE, !.updateCSS = @ + 1]
    /\ raised' = "none"
    /\ UNCHANGED <<cfgVars, docVars, domVars, cssVars>>

\* the handler invokes the command whether the table is collapsed or not
FoldCommandInvokedAlways(s, file, collapsed) == s.autoFold

\* lines 270-276: the handler invokes editor:toggle-fold-properties.  With
\* no document open the active leaf holds no .metadata-container, and
\* !metadataElement?.classList.contains('is-collapsed') is true
FoldCommandInvoked(s, file, collapsed) ==
    s.autoFold /\ (IF file = 0 THEN TRUE ELSE ~collapsed)

\* the handler of file-open when it schedules no regeneration
FileOpenNoRegeneration(file) ==
    /\ phase = "loaded"
    /\ file # activeFile
    /\ timers.updateCSS < MaxTimers
    /\ activeFile' = file
    /\ propClasses' = RenderProps(file)
    /\ isCollapsed' = IF FoldCommandInvoked(settings, file, isCollapsed) /\ file # 0
                    THEN ~isCollapsed ELSE isCollapsed
    /\ raised' = "none"
    /\ UNCHANGED <<cfgVars, metadataCache, otherPane, isActive, isMetadataFocused,
                   statusInput, allPropsOpen, itemHidden, cssVars, timers>>

\* the host opens file and raises file-open; the handler of lines 269-279
FileOpen(file) ==
    /\ phase = "loaded"
    /\ file # activeFile
    /\ timers.updateCSS < MaxTimers
    /\ activeFile' = file
    /\ propClasses' = RenderProps(file)
    /\ isCollapsed' = IF FoldCommandInvoked(settings, file, isCollapsed) /\ file # 0
                    THEN ~isCollapsed ELSE isCollapsed
    /\ timers' = [timers EXCEPT !.updateCSS = @ + 1]
    /\ raised' = "none"
    /\ UNCHANGED <<cfgVars, metadataCache, otherPane, isActive, isMetadataFocused,
                   statusInput, allPropsOpen, itemHidden, cssVars>>

\* a timeout of lines 224 or 278 runs updateCSS()
TimeoutUpdateCSS ==
    /\ timers.updateCSS > 0
    /\ UpdateCSSBody
    /\ timers' = [timers EXCEPT !.updateCSS = @ - 1]
    /\ UNCHANGED <<cfgVars, docVars, otherPane, isActive, isMetadataFocused, statusInput,
                   allPropsOpen, isCollapsed>>

\* the timer of debounceUpdateCSS, line 124, runs updateCSS()
DebounceUpdateCSS ==
    /\ timers.cssDebounce
    /\ UpdateCSSBody
    /\ timers' = [timers EXCEPT !.cssDebounce = FALSE, !.cssDue = 0]
    /\ UNCHANGED <<cfgVars, docVars, otherPane, isActive, isMetadataFocused, statusInput,
                   allPropsOpen, isCollapsed>>

\* the host unloads the plugin: onunload(), lines 295-297
OnUnload ==
    /\ phase = "loaded"
    /\ phase' = "unloaded"
    /\ head' = onunload(head, styleTag).head
    /\ raised' = onunload(head, styleTag).raised
    /\ UNCHANGED <<settings, savedData, clipboard, docVars, domVars, styleTag,
                   timers>>

NextLifecycle ==
    \/ OnLoad
    \/ LayoutReady
    \/ \E file \in {0, 1} : FileOpen(file)
    \/ \E key \in {"allProperties"} : ToggleHide(1, key)
    \/ TimeoutUpdateCSS
    \/ DebounceUpdateCSS
    \/ OnUnload

SpecLifecycle == InitLifecycle /\ [][NextLifecycle]_vars

\* C9: at most one fragment of the plugin is installed.
C9_AtMostOneFragment == Len(head) <= 1

\* the fragment regenerated for an open document after a change of the
\* rule list, every timer having run
C9_Witness ==
    /\ phase = "loaded"
    /\ activeFile # 0
    /\ timers = [NoTimers EXCEPT !.ready = TRUE]
    /\ Len(head) = 1
    /\ settings.entries # <<>>
    /\ settings.entries # <<R_litHide>>
    /\ InstalledText = CurrentCSS

\* C10: onunload lets no error escape and leaves no fragment installed.
C10_UnloadRemovesFragment ==
    [][OnUnload => (raised' = "none" /\ head' = <<>>)]_vars

\* the plugin unloaded after a regeneration had installed the fragment
C10_Witness ==
    /\ phase = "unloaded"
    /\ styleTag # 0
    /\ head = <<>>
    /\ timers.updateCSS = 0
    /\ ~timers.cssDebounce
    /\ raised = "none"

(***************************************************************************)
(* Import and export: the user exports the settings to the clipboard,      *)
(* edits a rule, and imports the clipboard's text or a text written by     *)
(* hand.                                                                   *)
(***************************************************************************)
ImportSaved ==
    {NullData,
     [DEFAULT_SETTINGS EXCEPT !.autoFold = TRUE, !.entries = <<R_reShow, R_litHide>>],
     [DEFAULT_SETTINGS EXCEPT
         !.entries = <<[name |-> Str_status,
                        hide |-> HideTargets(TRUE, TRUE, FALSE, FALSE)]>>]}

\* {
Text_truncated == <<Tok("{")>>
\* 5
Text_number == <<TNum(5)>>
\* []
Text_array == <<Tok("["), Tok("]")>>
\* {"hideEmptyEntry": false, "entries": 5}
Text_entriesNumber ==
    <<Tok("{"), TStr("hideEmptyEntry"), Tok(":"), Tok("false"), Tok(","),
      TStr("entries"), Tok(":"), TNum(5), Tok("}")>>
\* {"entries": [{"name": "status", "action": "show", "hide": {...}}]}
Text_rules ==
    <<Tok("{"), TStr("entries"), Tok(":"), Tok("["),
      Tok("{"), TStr("name"), Tok(":"), TStr(Str_status), Tok(","),
      TStr("action"), Tok(":"), TStr("show"), Tok(","),
      TStr("hide"), Tok(":"),
      Tok("{"), TStr("tableInactive"), Tok(":"), Tok("true"), Tok(","),
      TStr("tableActive"), Tok(":"), Tok("false"), Tok(","),
      TStr("fileProperties"), Tok(":"), Tok("false"), Tok(","),
      TStr("allProperties"), Tok(":"), Tok("false"), Tok("}"),
      Tok("}"), Tok("]"), Tok("}")>>
\* {"hideEmptyEntryInSideDock": true}
Text_option ==
    <<Tok("{"), TStr("hideEmptyEntryInSideDock"), Tok(":"), Tok("true"), Tok("}")>>

ImportTexts ==
    {Text_truncated, Text_number, Text_array, Text_entriesNumber, Text_rules,
     Text_option}

InitImport ==
    /\ phase = "constructed"
    /\ settings = NullData
    /\ savedData \in ImportSaved
    /\ clipboard = <<>>
    /\ activeFile = 0
    /\ metadataCache = InitialCache
    /\ isActive = FALSE
    /\ otherPane = NoOtherPane
    /\ isMetadataFocused = FALSE
    /\ propClasses = RenderProps(0)
    /\ statusInput = NoInput
    /\ allPropsOpen = FALSE
    /\ itemHidden = [k \in AllPropertyKeys |-> FALSE]
    /\ isCollapsed = FALSE
    /\ head = <<>>
    /\ styleTag = 0
    /\ timers = NoTimers
    /\ raised = "none"

\* the Export button, lines 541-547
Export ==
    /\ phase = "loaded"
    /\ clipboard' = JSONStringify(settings)
    /\ raised' = "none"
    /\ UNCHANGED <<phase, settings, savedData, docVars, domVars, cssVars, timers>>

\* the Import button of the modal with text in its textarea
ImportText(text) == Import(JSONParse(text))

\* a click on a toggle of a row shown before settings.entries stopped being
\* an array: line 725 reads a field of undefined
ToggleStaleRow ==
    /\ phase = "loaded"
    /\ ~IsArray(settings.entries)
    /\ raised' = "TypeError"
    /\ UNCHANGED <<cfgVars, docVars, domVars, cssVars, timers>>

NextImport ==
    \/ OnLoad
    \/ Export
    \/ \E text \in ImportTexts \cup {clipboard} : ImportText(text)
    \/ \E index \in 1..MaxRules, key \in {"allProperties"} : ToggleHide(index, key)
    \/ ToggleStaleRow

SpecImport == InitImport /\ [][NextImport]_vars

\* the import of text ended with the failure notice
ImportFails(text) == ~ImportMaps(settings, JSONParse(text))

\* C11: an import that ends with the failure notice leaves the settings
\* as they were, stores nothing and starts no regeneration.
C11_FailedImportChangesNothing ==
    [][\A text \in ImportTexts \cup {clipboard} :
          (ImportText(text) /\ ImportFails(text))
             => (settings' = settings /\ savedData' = savedData /\ timers' = timers)
      ]_vars

ReplacedBy(record) ==
    [ObjectAssign(DEFAULT_SETTINGS, record) EXCEPT !.entries = FillEntryDefaults(@)]

\* C13: after a successful import the settings are the imported record
\* with the defaults of the fields it lacks; no option and no rule of the
\* settings before the import that the record lacks is kept.
C13_ImportReplacesWholesale ==
    [][\A text \in ImportTexts \cup {clipboard} :
          (ImportText(text) /\ ~ImportFails(text))
             => settings' = ReplacedBy(JSONParse(text).value)
      ]_vars

EntryDefaults ==
    [isRegex |-> FALSE, folderFilter |-> <<>>, tagFilter |-> <<>>,
     action |-> "hide", valueCondition |-> <<>>]

\* each rule of result is the rule of source at its index with the
\* defaults of the five newer fields it lacks
FilledFrom(source, result) ==
    /\ Len(result) = Len(source)
    /\ \A i \in DOMAIN source :
          /\ DOMAIN result[i] = DOMAIN source[i] \cup DOMAIN EntryDefaults
          /\ \A f \in DOMAIN source[i] : result[i][f] = source[i][f]
          /\ \A f \in DOMAIN EntryDefaults \ DOMAIN source[i] :
                result[i][f] = EntryDefaults[f]

\* C14: load and successful import leave each rule of the record they read
\* with its stored fields as stored and with false, '', '', 'hide' and ''
\* for those of isRegex, folderFilter, tagFilter, action and valueCondition
\* it lacks.
C14_NewerFieldsDefaulted ==
    [][/\ (OnLoad /\ "entries" \in DOMAIN savedData)
            => FilledFrom(savedData.entries, settings'.entries)
       /\ \A text \in ImportTexts \cup {clipboard} :
             (/\ ImportText(text)
              /\ ~ImportFails(text)
              /\ "entries" \in DOMAIN JSONParse(text).value)
                => FilledFrom(JSONParse(text).value.entries, settings'.entries)
      ]_vars

\* a rule loaded without the newer fields, or imported with a stored
\* action and without the others, is in the settings with all of them
C14_Witness ==
    /\ phase = "loaded"
    /\ IsArray(settings.entries)
    /\ Len(settings.entries) = 1
    /\ settings.entries[1].action = "show"
    /\ settings.entries[1].isRegex = FALSE
    /\ settings.entries[1].valueCondition = <<>>
    /\ savedData = settings

(***************************************************************************)
(* What a surface displays.  The host's renderer resolves the installed    *)
(* fragment for every field element: of the blocks whose selector matches  *)
(* the element, an !important declaration beats a plain one, then the      *)
(* selector with more classes and attributes wins, then the later block.   *)
(* The selectors are the ones genAllCSS writes (main.ts lines 386-457).    *)
(***************************************************************************)
\* a field element: the surface it is in, its data-property-key, its
\* marker classes, and whether its container carries is-active
Element(surface, key, classes, active) ==
    [surface |-> surface, key |-> key, classes |-> classes, active |-> active]

\* the display value of a block, its priority flag, and the number of
\* classes, attributes and :not() arguments of its selector
Declaration(kind) ==
    CASE kind = "mh-hide"              -> [display |-> "none", important |-> TRUE,  specificity |-> 2]
      [] kind = "mh-show"              -> [display |-> "flex", important |-> TRUE,  specificity |-> 2]
      [] kind = "active-show-all"      -> [display |-> "flex", important |-> TRUE,  specificity |-> 3]
      [] kind = "sidedock-show"        -> [display |-> "flex", important |-> TRUE,  specificity |-> 2]
      [] kind = "show"                 -> [display |-> "flex", important |-> TRUE,  specificity |-> 5]
      [] kind = "hide-file-properties" -> [display |-> "none", important |-> TRUE,  specificity |-> 7]
      [] kind = "hide"                 -> [display |-> "none", important |-> FALSE, specificity |-> 5]
      [] kind = "hide-active"          -> [display |-> "none", important |-> TRUE,  specificity |-> 7]
      [] kind = "always-visible"       -> [display |-> "flex", important |-> FALSE, specificity |-> 5]
      [] OTHER                         -> [display |-> "none", important |-> FALSE, specificity |-> 0]

\* the selector of a block matches the element.  The main table sits in the
\* root split, the single-document panel in a side dock; the fields hold
\* values, so the selectors for empty fields match none of them, and the
\* whole-table selector is about the container, not a field.
SelectorMatches(block, el) ==
    LET keyed == \E i \in DOMAIN block.keys :
                     block.keys[i] = escapeCSSAttrValue(el.key)
    IN CASE block.kind = "mh-hide"              -> "mh-hide" \in el.classes
         [] block.kind = "mh-show"              -> "mh-show" \in el.classes
         [] block.kind = "active-show-all"      -> el.active
         [] block.kind = "sidedock-show"        -> el.surface = "fileProperties"
         [] block.kind = "show"                 -> keyed
         [] block.kind = "hide-file-properties" -> keyed /\ el.surface = "fileProperties"
         [] block.kind = "hide"                 -> keyed
         [] block.kind = "hide-active"          -> keyed /\ el.surface = "table"
         [] block.kind = "always-visible"       -> keyed
         [] OTHER                               -> FALSE

\* block i of the fragment takes precedence over block j
Precedes(text, i, j) ==
    LET a == Declaration(text[i].kind)
        b == Declaration(text[j].kind)
    IN IF a.important # b.important THEN a.important
       ELSE IF a.specificity # b.specificity THEN a.specificity > b.specificity
       ELSE i >= j

\* the block that decides the element's display (0: none matches, and the
\* host's own style displays the field)
Cascade(text, el) ==
    LET matching == {i \in DOMAIN text : SelectorMatches(text[i], el)}
    IN IF matching = {} THEN 0
       ELSE CHOOSE i \in matching : \A j \in matching : Precedes(text, i, j)

Displayed(text, el) ==
    IF Cascade(text, el) = 0 THEN TRUE
    ELSE Declaration(text[Cascade(text, el)].kind).display # "none"

(***************************************************************************)
(* The surfaces under the rule engine.  Rule lists of hide rules with      *)
(* different targets and a scoped show rule, both values of the            *)
(* empty-field options; the host opens documents and moves the focus, the  *)
(* plugin's three evaluation entry points run in between.                  *)
(***************************************************************************)
D_litInactive == Entry(Str_status, FALSE, <<>>, <<>>, "hide", <<>>,
                       HideTargets(TRUE, FALSE, FALSE, FALSE))
D_reInactive  == Entry(Str_caret_s, TRUE, <<>>, <<>>, "hide", <<>>,
                       HideTargets(TRUE, FALSE, FALSE, FALSE))
D_reAll       == Entry(Str_caret_, TRUE, <<>>, <<>>, "hide", <<>>,
                       HideTargets(TRUE, TRUE, TRUE, TRUE))

DisplayTemplates == {D_litInactive, R_litHide, D_reInactive, D_reAll, R_scoped}

DisplayLists ==
    UNION {{l \in [1..n -> DisplayTemplates] :
              \A i, j \in 1..n : l[i] = l[j] => i = j} : n \in 0..MaxRules}

InitDisplay ==
    /\ phase = "loaded"
    /\ settings \in {[DEFAULT_SETTINGS EXCEPT !.entries = l,
                                              !.hideEmptyEntry = e,
                                              !.hideEmptyEntryInSideDock = d] :
                        l \in DisplayLists, e \in BOOLEAN, d \in BOOLEAN}
                   \cup {[DEFAULT_SETTINGS EXCEPT !.entries = l,
                                                  !.propertiesVisible = Str_status] :
                            l \in DisplayLists}
    /\ savedData = settings
    /\ clipboard = <<>>
    /\ activeFile = 0
    /\ metadataCache = InitialCache
    /\ isActive = FALSE
    /\ otherPane = NoOtherPane
    /\ isMetadataFocused = FALSE
    /\ propClasses = RenderProps(0)
    /\ statusInput = NoInput
    /\ allPropsOpen = TRUE
    /\ itemHidden = [k \in AllPropertyKeys |-> FALSE]
    /\ isCollapsed = FALSE
    /\ head = <<>>
    /\ styleTag = 0
    /\ timers = NoTimers
    /\ raised = "none"

NextDisplay ==
    \/ RunUpdateCSS
    \/ RunApplyConditionalHiding
    \/ RunHideInAllProperties
    \/ \E file \in Files \cup {0} : OpenDocument(file)
    \/ \E inside \in BOOLEAN : FocusIn(inside)

SpecDisplay == InitDisplay /\ [][NextDisplay]_vars

\* the element of a displayed field on a surface, as the state has it
FieldElement(surface, key) ==
    Element(surface, key, propClasses[surface][key], surface = "table" /\ isActive)

\* the fragment was regenerated and the live pass has run since the last
\* change: running either again changes nothing
Settled ==
    /\ head # <<>>
    /\ InstalledText = CurrentCSS
    /\ propClasses = applyConditionalHiding(settings, activeFile, metadataCache,
                                            isActive, statusInput, propClasses)

\* C15: while the main table is Active, a field won by a hide rule with
\* the inactive-hide target set and the always-hide target clear is
\* displayed, and a field won by a hide rule with the always-hide target
\* set stays hidden, on the declarative and on the live path and for
\* either value of the empty-field option.
C15_ActiveShowsInactiveOnlyHides ==
    (activeFile # 0 /\ isActive /\ Settled) =>
        \A key \in DisplayedKeys(activeFile) :
            LET w == LiveWinner(settings.entries, "table", key).winner
                shown == Displayed(InstalledText, FieldElement("table", key))
            IN (w # 0 /\ settings.entries[w].action = "hide") =>
                  /\ settings.entries[w].hide.tableActive => ~shown
                  /\ (settings.entries[w].hide.tableInactive
                        /\ ~settings.entries[w].hide.tableActive) => shown

\* a live pass run in this state leaves every marker as it is: the state
\* is one a pass has just produced
AfterLivePass ==
    propClasses = applyConditionalHiding(settings, activeFile, metadataCache,
                                         isActive, statusInput, propClasses)

\* C16: after a live pass, every displayed field element whose key
\* resolves to no rule, or to a rule without regex and value condition,
\* carries neither mh-hide nor mh-show, whatever it carried before.
C16_PassClearsUnclaimedMarkers ==
    AfterLivePass =>
        \A surface \in Surfaces : \A key \in DisplayedKeys(activeFile) :
            LET w == LiveWinner(settings.entries, surface, key).winner
            IN (w = 0 \/ ~IsDomEntry(settings.entries[w])) =>
                   propClasses[surface][key] = {}

\* a hide rule decided by a pattern, with all four targets set
IsRegexHideEverywhere(entry) ==
    /\ entry.isRegex
    /\ entry.action = "hide"
    /\ \A target \in HideKeys : entry.hide[target]

\* an all-fields pass run in this state leaves every item as it is
AfterAllFieldsPass ==
    itemHidden = hideInAllProperties(settings, activeFile, metadataCache,
                                     allPropsOpen, itemHidden)

\* C17: a regex hide rule with all four targets set hides every field
\* whose key it wins in every surface (the main table, Active or not, the
\* single-document panel, the all-fields panel), and a key no rule matches
\* receives no hide marker.
C17_RegexHideEverywhere ==
    (activeFile # 0 /\ Settled /\ AfterAllFieldsPass) =>
        /\ \A surface \in Surfaces : \A key \in DisplayedKeys(activeFile) :
              LET w == LiveWinner(settings.entries, surface, key).winner
              IN /\ (w # 0 /\ IsRegexHideEverywhere(settings.entries[w])) =>
                        ~Displayed(InstalledText, FieldElement(surface, key))
                 /\ w = 0 => "mh-hide" \notin propClasses[surface][key]
        /\ \A item \in AllPropertyKeys :
              LET w == AllFieldsWinner(settings.entries, toLowerCase(item)).winner
              IN /\ (w # 0 /\ IsRegexHideEverywhere(settings.entries[w])) =>
                        itemHidden[item]
                 /\ w = 0 => ~itemHidden[item]

\* the kinds of the per-key blocks the fragment holds for a key
BlockKinds(text, key) ==
    {text[i].kind : i \in {j \in DOMAIN text :
                              /\ text[j].kind \in PerKeyKinds
                              /\ text[j].keys = <<escapeCSSAttrValue(key)>>}}

\* rule i is a show rule with a folder scope and no other condition, rule
\* j a hide rule for the same literal key without scope, and no other
\* literal rule for the key stands before rule j
ScopedShowBeforeHide(entries, i, j) ==
    /\ i < j
    /\ ~IsDomEntry(entries[i]) /\ ~IsDomEntry(entries[j])
    /\ entries[i].action = "show" /\ entries[j].action = "hide"
    /\ FieldTrim(entries[i], "folderFilter") # <<>>
    /\ FieldTrim(entries[i], "tagFilter") = <<>>
    /\ FieldTrim(entries[j], "folderFilter") = <<>>
    /\ FieldTrim(entries[j], "tagFilter") = <<>>
    /\ toLowerCase(trim(entries[i].name)) = toLowerCase(trim(entries[j].name))
    /\ \A k \in 1..(j - 1) :
          k # i => \/ IsDomEntry(entries[k])
                   \/ toLowerCase(trim(entries[k].name))
                         # toLowerCase(trim(entries[i].name))

\* the kinds of the blocks a hide rule's targets ask for
HideKinds(hide) ==
    (IF hide.fileProperties THEN {"hide-file-properties"} ELSE {})
    \cup (IF hide.tableInactive \/ hide.tableActive THEN {"hide"} ELSE {})
    \cup (IF hide.tableActive THEN {"hide-active"} ELSE {})

\* C18: with a folder-scoped show rule before an unscoped hide rule for
\* the same literal key, the regenerated fragment holds for a document in
\* the folder the show block and no hide block for the key, and for a
\* document outside the folder the hide blocks and no show block.
C18_ScopedShowThenHide ==
    (activeFile # 0 /\ head # <<>> /\ InstalledText = CurrentCSS) =>
        \A i, j \in DOMAIN settings.entries :
            ScopedShowBeforeHide(settings.entries, i, j) =>
                LET key == toLowerCase(trim(settings.entries[i].name))
                IN BlockKinds(InstalledText, key) =
                      IF InFolder(settings.entries[i], activeFile)
                      THEN {"show"}
                      ELSE HideKinds(settings.entries[j].hide)

\* the fragment was regenerated for a document in the folder, after one
\* outside it had been open
C18_Witness ==
    /\ activeFile = 1
    /\ head # <<>>
    /\ InstalledText = CurrentCSS
    /\ Len(settings.entries) = 2
    /\ ScopedShowBeforeHide(settings.entries, 1, 2)
    /\ InFolder(settings.entries[1], activeFile)
    /\ BlockKinds(InstalledText, Str_status) = {"show"}

(***************************************************************************)
(* Reordering.  The arrow buttons of the settings tab (main.ts lines       *)
(* 784-811) move rules of longer lists while the host opens documents and  *)
(* stores field values.                                                    *)
(***************************************************************************)
MaxOrderRules == 3

OrderLists ==
    UNION {{l \in [1..n -> RuleTemplates] :
              \A i, j \in 1..n : l[i] = l[j] => i = j} : n \in 0..MaxOrderRules}

InitOrder ==
    /\ phase = "loaded"
    /\ settings \in {[DEFAULT_SETTINGS EXCEPT !.entries = l] : l \in OrderLists}
    /\ savedData = settings
    /\ clipboard = <<>>
    /\ activeFile = 0
    /\ metadataCache = InitialCache
    /\ isActive = FALSE
    /\ otherPane = NoOtherPane
    /\ isMetadataFocused = FALSE
    /\ propClasses = RenderProps(0)
    /\ statusInput = NoInput
    /\ allPropsOpen = TRUE
    /\ itemHidden = [k \in AllPropertyKeys |-> FALSE]
    /\ isCollapsed = FALSE
    /\ head = <<>>
    /\ styleTag = 0
    /\ timers = NoTimers
    /\ raised = "none"

NextOrder ==
    \/ \E index \in 1..(MaxOrderRules + 1) : MoveUp(index)
    \/ \E index \in 1..(MaxOrderRules + 1) : MoveDown(index)
    \/ \E file \in EvalFiles \cup {0} : OpenDocument(file)
    \/ \E value \in StatusValues : StoreValue(value)

SpecOrder == InitOrder /\ [][NextOrder]_vars

\* what resolution of a key yields: the winning rule, or no rule
Resolved(entries, r) == IF r.winner = 0 THEN {} ELSE {entries[r.winner]}

\* the list with rule i moved to the first position
MoveToFront(entries, i) == <<entries[i]>> \o RemoveAt(entries, i)

\* C19: swapping two rules that both fail to match a key in the document
\* context never changes what the key resolves to, and moving a rule that
\* matches the key to the first position makes it the winner, on the live
\* path (the main table's elements) and in the all-fields pass.
C19_ReorderingLaws ==
    \A key \in KeyUniverse :
        LET e == settings.entries
        IN /\ \A surface \in {"table"} :
                LET propEl == CurrentPropEl(surface, key)
                IN /\ \A i, j \in DOMAIN e :
                        (i < j /\ ~MatchesAll(e[i], key, propEl)
                               /\ ~MatchesAll(e[j], key, propEl))
                          => Resolved(Swap(e, i, j),
                                      LiveWinner(Swap(e, i, j), surface, key))
                               = Resolved(e, LiveWinner(e, surface, key))
                   /\ \A i \in DOMAIN e :
                        MatchesAll(e[i], key, propEl)
                          => Resolved(MoveToFront(e, i),
                                      LiveWinner(MoveToFront(e, i), surface, key))
                               = {e[i]}
           /\ \A i, j \in DOMAIN e :
                (i < j /\ ~MatchesAll(e[i], key, NoInput)
                       /\ ~MatchesAll(e[j], key, NoInput))
                  => Resolved(Swap(e, i, j), AllFieldsWinner(Swap(e, i, j), key))
                       = Resolved(e, AllFieldsWinner(e, key))
           /\ \A i \in DOMAIN e :
                MatchesAll(e[i], key, NoInput)
                  => Resolved(MoveToFront(e, i),
                              AllFieldsWinner(MoveToFront(e, i), key))
                       = {e[i]}

\* after a move, two rules that do not match the status field of the open
\* document stand before two that do
C19_Witness ==
    /\ activeFile = 2
    /\ timers.cssDebounce
    /\ Len(settings.entries) = 3
    /\ ~MatchesAll(settings.entries[1], Str_status, NoInput)
    /\ MatchesAll(settings.entries[2], Str_status, NoInput)
    /\ MatchesAll(settings.entries[3], Str_status, NoInput)
    /\ \E i \in 1..3 : settings.entries[i] = R_scoped

(***************************************************************************)
(* Focus tracker: main.ts lines 234-267.  A document is open in the main   *)
(* table; the host delivers the focusout of the element that loses the     *)
(* focus before the focusin of the one that gains it, and runs the         *)
(* timeouts of the focusout handler, all of the same delay, in the order   *)
(* they were set.                                                          *)
(***************************************************************************)
MaxGrace == 2

FocusLists == {<<>>, <<D_litInactive>>, <<D_reInactive>>, <<R_litHide>>}

InitFocus ==
    /\ phase = "loaded"
    /\ settings \in {[DEFAULT_SETTINGS EXCEPT !.entries = l, !.hideEmptyEntry = e] :
                        l \in FocusLists, e \in BOOLEAN}
    /\ savedData = settings
    /\ clipboard = <<>>
    /\ activeFile = 1
    /\ metadataCache = InitialCache
    /\ isActive = FALSE
    /\ otherPane = NoOtherPane
    /\ isMetadataFocused = FALSE
    /\ propClasses = RenderProps(1)
    /\ statusInput = NoInput
    /\ allPropsOpen = FALSE
    /\ itemHidden = [k \in AllPropertyKeys |-> FALSE]
    /\ isCollapsed = FALSE
    /\ head = <<>>
    /\ styleTag = 0
    /\ timers = NoTimers
    /\ raised = "none"

\* the focusout handler, lines 256-267: inside tells whether the element
\* that loses the focus is in the main table
FocusOut(inside) ==
    /\ phase = "loaded"
    /\ activeFile # 0
    /\ inside => isMetadataFocused
    /\ IF inside
       THEN /\ timers.grace < MaxGrace
            /\ isMetadataFocused' = FALSE
            /\ timers' = [timers EXCEPT !.grace = @ + 1]
       ELSE UNCHANGED <<isMetadataFocused, timers>>
    /\ raised' = "none"
    /\ UNCHANGED <<cfgVars, docVars, otherPane, isActive, propClasses, statusInput,
                   allPropsOpen, itemHidden, isCollapsed, cssVars>>

\* the callback of the oldest pending timeout of the focusout handler,
\* lines 261-265
GraceExpires ==
    /\ timers.grace > 0
    /\ timers' = [timers EXCEPT !.grace = @ - 1]
    /\ isActive' = IF ~isMetadataFocused THEN FALSE ELSE isActive
    /\ raised' = "none"
    /\ UNCHANGED <<cfgVars, docVars, isMetadataFocused, propClasses, statusInput,
                   allPropsOpen, itemHidden, isCollapsed, otherPane, cssVars>>

NextFocus ==
    \/ RunUpdateCSS
    \/ RunApplyConditionalHiding
    \/ \E inside \in BOOLEAN : ~isMetadataFocused /\ FocusIn(inside)
    \/ \E inside \in BOOLEAN : FocusOut(inside)
    \/ GraceExpires

SpecFocus == InitFocus /\ [][NextFocus]_vars

\* C20: the active marker is removed only by the timeout of the most
\* recent focus loss, the one that is the last still pending, and only if
\* the focus did not come back since; and a focus that comes back while a
\* timeout is pending finds the marker still in place.
C20_GraceDelayFromLastLoss ==
    [][/\ (isActive /\ ~isActive') =>
              (timers.grace = 1 /\ timers'.grace = 0 /\ ~isMetadataFocused)
       /\ (~isMetadataFocused /\ isMetadataFocused' /\ timers.grace > 0) =>
              (isActive /\ isActive')]_vars

(***************************************************************************)
(* Configurations and regeneration.  The settings are loaded, replaced by  *)
(* imports that end with the success notice and edited in the settings     *)
(* tab; the settings debounce then runs updateCSS().                       *)
(***************************************************************************)
\* display(), lines 669-823, raises: it reads a hide target of a rule that
\* holds no hide record (line 720), or settings.entries has no forEach
DisplayThrows(s) ==
    IF Len(s.entries) > 0 /\ "number" \in DOMAIN s.entries[1] THEN TRUE
    ELSE \E i \in DOMAIN s.entries :
            s.entries[i].action # "show" /\ "hide" \notin DOMAIN s.entries[i]

\* lines 486-502: the handler reaches the success notice
ImportReportsSuccess(s, imported) ==
    ImportMaps(s, imported) /\ ~DisplayThrows(ImportSettings(s, imported))

\* {"entries": [{"name": "status", "action": "show"}]}
Text_showNoHide ==
    <<Tok("{"), TStr("entries"), Tok(":"), Tok("["),
      Tok("{"), TStr("name"), Tok(":"), TStr(Str_status), Tok(","),
      TStr("action"), Tok(":"), TStr("show"), Tok("}"), Tok("]"), Tok("}")>>
\* {"entries": [{"name": "status"}]}
Text_hideNoHide ==
    <<Tok("{"), TStr("entries"), Tok(":"), Tok("["),
      Tok("{"), TStr("name"), Tok(":"), TStr(Str_status), Tok("}"),
      Tok("]"), Tok("}")>>

RobustTexts ==
    {Text_number, Text_entriesNumber, Text_rules, Text_option, Text_showNoHide,
     Text_hideNoHide}

InitRobust ==
    /\ phase = "constructed"
    /\ settings = NullData
    /\ savedData \in ImportSaved
    /\ clipboard = <<>>
    /\ activeFile \in {0, 1}
    /\ metadataCache = InitialCache
    /\ isActive = FALSE
    /\ otherPane = NoOtherPane
    /\ isMetadataFocused = FALSE
    /\ propClasses = RenderProps(activeFile)
    /\ statusInput = NoInput
    /\ allPropsOpen = FALSE
    /\ itemHidden = [k \in AllPropertyKeys |-> FALSE]
    /\ isCollapsed = FALSE
    /\ head = <<>>
    /\ styleTag = 0
    /\ timers = NoTimers
    /\ raised = "none"

\* the action button of rule index, lines 691-697; its display() is not
\* guarded
ToggleAction(index) ==
    /\ phase = "loaded"
    /\ index \in DOMAIN settings.entries
    /\ settings' = [settings EXCEPT !.entries[index].action =
                        IF @ = "show" THEN "hide" ELSE "show"]
    /\ savedData' = settings'
    /\ timers' = ArmUpdateCSS(timers)
    /\ raised' = IF DisplayThrows(settings') THEN "TypeError" ELSE "none"
    /\ UNCHANGED <<phase, clipboard, docVars, domVars, cssVars>>

NextRobust ==
    \/ OnLoad
    \/ \E text \in RobustTexts :
          /\ phase = "loaded"
          /\ ImportReportsSuccess(settings, JSONParse(text))
          /\ ImportText(text)
    \/ \E index \in 1..MaxRules : ToggleAction(index)
    \/ \E index \in 1..MaxRules : DeleteEntry(index)
    \/ DebounceUpdateCSS

SpecRobust == InitRobust /\ [][NextRobust]_vars

\* C21: for every configuration reached through load, edits in the
\* settings tab and imports that end with the success notice, a
\* regeneration raises nothing.
C21_RegenerationNeverRaises ==
    [][DebounceUpdateCSS => raised' = "none"]_vars

\* the key is in the always-visible list
InVisibleList(s, key) ==
    \E i \in DOMAIN string2list(s.propertiesVisible) :
        toLowerCase(trim(string2list(s.propertiesVisible)[i])) = key

\* the fragment the generator writes for the settings with the
\* always-visible list emptied
CSSWithoutVisibleList ==
    genAllCSS([settings EXCEPT !.propertiesVisible = <<>>], activeFile,
              PathOf(activeFile), metadataCache)

\* C22: the always-visible list is lowest priority: a field whose key is
\* in the list and is won by an explicit hide rule applicable to the open
\* document is displayed exactly where it would be with the list empty.
C22_VisibleListLowestPriority ==
    (activeFile # 0 /\ Settled) =>
        \A surface \in Surfaces : \A key \in DisplayedKeys(activeFile) :
            LET w == LiveWinner(settings.entries, surface, key).winner
            IN (InVisibleList(settings, key) /\ w # 0
                  /\ settings.entries[w].action = "hide") =>
                 (Displayed(InstalledText, FieldElement(surface, key))
                    <=> Displayed(CSSWithoutVisibleList, FieldElement(surface, key)))

\* both scopes of the rule are empty once trimmed
Unscoped(entry) ==
    FieldTrim(entry, "folderFilter") = <<>> /\ FieldTrim(entry, "tagFilter") = <<>>

\* literal hide rules for the status field with every combination of an
\* empty, a blank and a set folder scope and tag scope
ScopeProbes ==
    {Entry(Str_status, FALSE, f, t, "hide", <<>>, HideTargets(TRUE, TRUE, TRUE, TRUE)) :
        f \in {<<>>, <<" ">>, Str_Projects}, t \in {<<>>, <<" ">>, Str_hashWork}}

\* C23: with no document open, a rule with a folder scope or a tag scope
\* applies on none of the three paths, a rule with both scopes empty still
\* applies, and evaluation raises no error: each path resolves as it does
\* for the list without its scoped rules.
C23_NoDocumentScopedRulesOff ==
    activeFile = 0 =>
        /\ raised = "none"
        /\ \A e \in {settings.entries} \cup {<<p>> : p \in ScopeProbes}
                      \cup {<<p, R_litHide>> : p \in ScopeProbes} :
             LET u == SelectSeq(e, Unscoped)
             IN /\ \A i \in DOMAIN e :
                      isEntryApplicable(e[i], 0, PathOf(0), metadataCache)
                         <=> Unscoped(e[i])
                /\ genEntriesCSS(e, {}, 0, PathOf(0), metadataCache)
                      = genEntriesCSS(u, {}, 0, PathOf(0), metadataCache)
                /\ \A key \in KeyUniverse :
                      /\ Resolved(e, hideInAllPropertiesLoop(
                                         e, 1, key, 0, PathOf(0), metadataCache,
                                         CurrentFrontmatterLower))
                           = Resolved(u, hideInAllPropertiesLoop(
                                             u, 1, key, 0, PathOf(0), metadataCache,
                                             CurrentFrontmatterLower))
                      /\ Resolved(e, applyConditionalHidingLoop(
                                         e, 1, key, 0, PathOf(0), metadataCache,
                                         CurrentFrontmatterLower, NoInput))
                           = Resolved(u, applyConditionalHidingLoop(
                                             u, 1, key, 0, PathOf(0), metadataCache,
                                             CurrentFrontmatterLower, NoInput))

\* the last document was closed, the list holds the folder-scoped show
\* rule before the unscoped hide rule, and updateCSS() ran: the hide rule
\* decided the fragment and the all-fields item
C23_Witness ==
    /\ activeFile = 0
    /\ settings.entries = <<R_scoped, R_litHide>>
    /\ head # <<>>
    /\ InstalledText = CurrentCSS
    /\ BlockKinds(InstalledText, Str_status) = {"hide", "hide-active"}
    /\ itemHidden[Str_Status]
    /\ \E f \in Files : metadataCache[f] # InitialCache[f]

(***************************************************************************)
(* Auto-fold: the file-open handler, main.ts lines 269-279.  The stored    *)
(* record holds the global option and, as the documentation of the scoped  *)
(* rules has it, a list autoFoldRules of folder and tag scopes.            *)
(***************************************************************************)
WithAutoFoldRules(s, rules) ==
    [k \in DOMAIN s \cup {"autoFoldRules"} |->
        IF k = "autoFoldRules" THEN rules ELSE s[k]]

FoldSaved ==
    {[DEFAULT_SETTINGS EXCEPT !.autoFold = TRUE],
     [DEFAULT_SETTINGS EXCEPT !.entries = <<R_litHide>>],
     WithAutoFoldRules(DEFAULT_SETTINGS,
                       <<[folderFilter |-> Str_Projects, tagFilter |-> <<>>]>>),
     WithAutoFoldRules([DEFAULT_SETTINGS EXCEPT !.entries = <<R_litHide>>],
                       <<[folderFilter |-> <<>>, tagFilter |-> Str_hashWork]>>)}

InitFold ==
    /\ phase = "constructed"
    /\ settings = NullData
    /\ savedData \in FoldSaved
    /\ clipboard = <<>>
    /\ activeFile = 0
    /\ metadataCache = InitialCache
    /\ isActive = FALSE
    /\ otherPane = NoOtherPane
    /\ isMetadataFocused = FALSE
    /\ propClasses = RenderProps(0)
    /\ statusInput = NoInput
    /\ allPropsOpen = FALSE
    /\ itemHidden = [k \in AllPropertyKeys |-> FALSE]
    /\ isCollapsed = FALSE
    /\ head = <<>>
    /\ styleTag = 0
    /\ timers = NoTimers
    /\ raised = "none"

\* the user unfolds the main table
Unfold ==
    /\ phase = "loaded"
    /\ activeFile # 0
    /\ isCollapsed
    /\ isCollapsed' = FALSE
    /\ UNCHANGED <<cfgVars, docVars, otherPane, isActive, isMetadataFocused, propClasses,
                   statusInput, allPropsOpen, itemHidden, cssVars, timers, raised>>

NextFold ==
    \/ OnLoad
    \/ LayoutReady
    \/ \E file \in Files \cup {0} : FileOpen(file)
    \/ TimeoutUpdateCSS
    \/ Unfold

SpecFold == InitFold /\ [][NextFold]_vars

\* the scoped auto-fold rules the settings hold
AutoFoldRules(s) == IF "autoFoldRules" \in DOMAIN s THEN s.autoFoldRules ELSE <<>>

\* C24: on document-open the main table is folded when the global option
\* is on or some scoped auto-fold rule applies to the opened document, and
\* with the option off a document outside every rule's scope is left as
\* it was.
C24_AutoFoldGlobalOrScoped ==
    [][\A file \in Files :
          FileOpen(file) =>
             (isCollapsed' <=>
                 \/ isCollapsed
                 \/ settings.autoFold
                 \/ \E i \in DOMAIN AutoFoldRules(settings) :
                       isEntryApplicable(AutoFoldRules(settings)[i], file,
                                         PathOf(file), metadataCache))]_vars

\* C25: the markers a live pass leaves depend only on the rule list, the
\* document context and the focus state: started from the markers the
\* elements carry or from elements without markers, the pass ends in the
\* same marker state.
C25_PassIndependentOfPriorMarkers ==
    applyConditionalHiding(settings, activeFile, metadataCache, isActive,
                           statusInput, propClasses)
      = applyConditionalHiding(settings, activeFile, metadataCache, isActive,
                               statusInput, RenderProps(activeFile))

\* every combination of the four hide targets
AllHideTargets ==
    {HideTargets(ti, ta, fp, ap) : ti \in BOOLEAN, ta \in BOOLEAN,
                                   fp \in BOOLEAN, ap \in BOOLEAN}

\* the live path marks an unmarked element won by a hide rule with the
\* targets mh-hide
LiveHides(hide, surface, active) ==
    "mh-hide" \in ApplyEntry(Entry(Str_caret_s, TRUE, <<>>, <<>>, "hide", <<>>, hide),
                             {}, surface = "fileProperties",
                             surface = "table" /\ active)

\* the fragment generated for a literal hide rule with the targets hides
\* the unmarked element of the rule's key
DeclarativeHides(hide, surface, active) ==
    ~Displayed(genAllCSS([settings EXCEPT !.entries =
                             <<Entry(Str_private, FALSE, <<>>, <<>>, "hide", <<>>, hide)>>],
                         activeFile, PathOf(activeFile), metadataCache),
               Element(surface, Str_private, {}, surface = "table" /\ active))

\* C26: for every combination of hide targets, surface and focus state,
\* the live path force-hides an element won by a hide rule exactly where
\* the generator's fragment hides a field won by a literal hide rule with
\* the same targets.
C26_LiveHidesWhereDeclarativeHides ==
    \A hide \in AllHideTargets : \A surface \in Surfaces : \A active \in BOOLEAN :
        LiveHides(hide, surface, active) <=> DeclarativeHides(hide, surface, active)

\* the kinds of the per-key blocks the fragment holds for the key, in the
\* order of the fragment
RECURSIVE KeyBlockKinds(_, _)
KeyBlockKinds(text, key) ==
    IF text = <<>> THEN <<>>
    ELSE (IF Head(text).kind \in PerKeyKinds
             /\ Head(text).keys = <<escapeCSSAttrValue(key)>>
          THEN <<Head(text).kind>> ELSE <<>>)
         \o KeyBlockKinds(Tail(text), key)

\* the rule has no regex and no value condition, is in scope for the
\* current document, and its trimmed lowercased name is the key
LiteralInScopeFor(entry, key) ==
    /\ ~entry.isRegex
    /\ FieldTrim(entry, "valueCondition") = <<>>
    /\ isEntryApplicable(entry, activeFile, PathOf(activeFile), metadataCache)
    /\ toLowerCase(trim(entry.name)) = key

\* the blocks the rule is to emit for its key
ExpectedKinds(entry) ==
    IF entry.action = "show" THEN <<"show">>
    ELSE (IF entry.hide.fileProperties THEN <<"hide-file-properties">> ELSE <<>>)
         \o (IF entry.hide.tableInactive \/ entry.hide.tableActive
             THEN <<"hide">> ELSE <<>>)
         \o (IF entry.hide.tableActive THEN <<"hide-active">> ELSE <<>>)

\* literal rules for the key status: a hide rule with every combination
\* of the table and panel targets, a show rule, and both again behind a
\* folder scope
LeadingRules ==
    {Entry(Str_status, FALSE, <<>>, <<>>, "hide", <<>>, HideTargets(ti, ta, fp, TRUE)) :
        ti \in BOOLEAN, ta \in BOOLEAN, fp \in BOOLEAN}
    \cup {Entry(Str_status, FALSE, folder, <<>>, action, <<>>,
                HideTargets(FALSE, FALSE, FALSE, TRUE)) :
             folder \in {<<>>, Str_Projects}, action \in {"hide", "show"}}

\* C27: the per-key blocks of the fragment come from exactly one rule, the
\* first in list order without regex and value condition that is in scope
\* for the current document: a show rule gives one force-display block, a
\* hide rule the panel block iff fileProperties, the generic block iff
\* tableInactive or tableActive, the active-override block iff tableActive;
\* a hide rule without these targets gives nothing and still claims the key.
C27_BlocksFromFirstLiteralRule ==
    \A lead \in LeadingRules :
        LET entries == <<lead>> \o settings.entries
            text    == genAllCSS([settings EXCEPT !.entries = entries], activeFile,
                                 PathOf(activeFile), metadataCache)
            from    == {i \in DOMAIN entries : LiteralInScopeFor(entries[i], Str_status)}
        IN KeyBlockKinds(text, Str_status) =
              IF from = {} THEN <<>>
              ELSE ExpectedKinds(entries[CHOOSE i \in from : \A j \in from : i <= j])

\* a scoped show rule stands first and is out of scope for the open
\* document, a hide rule for the same key with both table targets follows,
\* and the regenerated fragment holds that rule's two blocks for the key
C27_Witness ==
    /\ head # <<>>
    /\ activeFile # 0
    /\ settings.entries = <<R_scoped, R_litHide>>
    /\ ~LiteralInScopeFor(R_scoped, Str_status)
    /\ InstalledText = CurrentCSS
    /\ KeyBlockKinds(InstalledText, Str_status) = <<"hide", "hide-active">>

\* the rules that match the item of the all-fields panel by name, by scope
\* for the current document, and by the value stored for its key
ItemMatches(item) ==
    {i \in DOMAIN settings.entries :
        /\ matchesEntryName(toLowerCase(item), settings.entries[i])
        /\ isEntryApplicable(settings.entries[i], activeFile, PathOf(activeFile),
                             metadataCache)
        /\ matchesValueCondition(settings.entries[i], toLowerCase(item),
              buildFrontmatterLower(ActiveFrontmatter(activeFile, metadataCache)),
              NoInput)}

\* the item's first matching rule hides in the all-fields panel
ItemWinnerHides(item) ==
    /\ ItemMatches(item) # {}
    /\ LET w == CHOOSE i \in ItemMatches(item) : \A j \in ItemMatches(item) : i <= j
       IN /\ settings.entries[w].action = "hide"
          /\ settings.entries[w].hide.allProperties

\* C28: after each all-fields pass every item of the all-fields panel
\* carries the force-hidden marker exactly when its first matching rule (by
\* name, scope and stored value) has action hide with allProperties set;
\* an item without matching rule, or won by a show rule or by a hide rule
\* without allProperties, has the marker cleared, whatever the focus state.
C28_AllFieldsMarkerFromFirstMatch ==
    (allPropsOpen /\ AfterAllFieldsPass) =>
        \A item \in DOMAIN itemHidden : itemHidden[item] <=> ItemWinnerHides(item)

\* the table has the focus, a pass left one item marked and another one,
\* whose first matching rule is a hide rule without allProperties, unmarked
C28_Witness ==
    /\ allPropsOpen /\ AfterAllFieldsPass
    /\ isActive
    /\ \E item \in DOMAIN itemHidden : itemHidden[item]
    /\ \E item \in DOMAIN itemHidden :
          /\ ~itemHidden[item]
          /\ ItemMatches(item) # {}
          /\ LET w == CHOOSE i \in ItemMatches(item) : \A j \in ItemMatches(item) : i <= j
             IN /\ settings.entries[w].action = "hide"
                /\ ~settings.entries[w].hide.allProperties

\* the plugin is loaded and neither a settle-delay timeout nor the
\* stylesheet debounce is pending
NoRegenerationPending ==
    /\ phase = "loaded"
    /\ timers.updateCSS = 0
    /\ ~timers.cssDebounce

L_taggedHide == Entry(Str_status, FALSE, <<>>, Str_hashWork, "hide", <<>>,
                      HideTargets(TRUE, TRUE, FALSE, TRUE))

InitDebounce ==
    /\ phase = "loaded"
    /\ settings \in {[DEFAULT_SETTINGS EXCEPT !.entries = <<R_vcHide>>],
                     [DEFAULT_SETTINGS EXCEPT !.entries = <<L_taggedHide>>]}
    /\ savedData = settings
    /\ clipboard = <<>>
    /\ activeFile = 1
    /\ metadataCache = InitialCache
    /\ isActive = FALSE
    /\ otherPane = NoOtherPane
    /\ isMetadataFocused = FALSE
    /\ propClasses = RenderProps(1)
    /\ statusInput = RenderedInput(Input(<<>>), 1, InitialCache)
    /\ allPropsOpen = TRUE
    /\ itemHidden = hideInAllProperties(settings, 1, InitialCache, TRUE,
                                        [k \in AllPropertyKeys |-> FALSE])
    /\ isCollapsed = FALSE
    /\ head = <<>>
    /\ styleTag = 0
    /\ timers = NoTimers
    /\ raised = "none"

\* the host stores a new status value for the open document and raises
\* changed on the metadata cache: the handler of lines 282-284
CacheChanged(value) ==
    /\ phase = "loaded"
    /\ activeFile \in EditableFiles
    /\ metadataCache' = [metadataCache EXCEPT
                            ![activeFile].frontmatter = FrontmatterOf(value)]
    /\ statusInput' = RenderedInput(statusInput, activeFile, metadataCache')
    /\ timers' = ArmApplyConditional(timers)
    /\ UNCHANGED <<cfgVars, activeFile, otherPane, isActive, isMetadataFocused, propClasses,
                   allPropsOpen, itemHidden, isCollapsed, cssVars, raised>>

\* the host stores a new tag set for the open document and raises changed
\* on the metadata cache: the handler of lines 282-284
TagsChanged(tags) ==
    /\ phase = "loaded"
    /\ activeFile \in EditableFiles
    /\ metadataCache' = [metadataCache EXCEPT ![activeFile].tags = tags]
    /\ timers' = ArmApplyConditional(timers)
    /\ UNCHANGED <<cfgVars, activeFile, domVars, cssVars, raised>>

\* the user types text, into the status input of the field table or into
\* the note: the input handler of lines 287-292
InputEvent(text, inside) ==
    /\ phase = "loaded"
    /\ activeFile # 0
    /\ statusInput.hasInput
    /\ IF inside
       THEN /\ statusInput' = Input(text)
            /\ timers' = ArmApplyConditional(timers)
       ELSE UNCHANGED <<statusInput, timers>>
    /\ UNCHANGED <<cfgVars, docVars, otherPane, isActive, isMetadataFocused, propClasses,
                   allPropsOpen, itemHidden, isCollapsed, cssVars, raised>>

\* the timer of debounceApplyConditional, line 125, runs
\* applyConditionalHiding()
DebounceApplyConditional ==
    /\ timers.applyDue = 1
    /\ propClasses' = applyConditionalHiding(settings, activeFile, metadataCache,
                                             isActive, statusInput, propClasses)
    /\ timers' = [timers EXCEPT !.applyDue = 0]
    /\ raised' = "none"
    /\ UNCHANGED <<cfgVars, docVars, otherPane, isActive, isMetadataFocused, statusInput,
                   allPropsOpen, itemHidden, isCollapsed, cssVars>>

\* the timer of debounceUpdateCSS runs updateCSS() when its time is up
DebounceUpdateCSSDue == timers.cssDue = 1 /\ DebounceUpdateCSS

\* one unit of time passes while no pending timer is due
Tick ==
    /\ timers.cssDue # 1 /\ timers.applyDue # 1
    /\ timers.cssDue > 1 \/ timers.applyDue > 1
    /\ timers' = [timers EXCEPT !.cssDue = IF @ > 1 THEN @ - 1 ELSE @,
                                !.applyDue = IF @ > 1 THEN @ - 1 ELSE @]
    /\ UNCHANGED <<cfgVars, docVars, domVars, cssVars, raised>>

LiveTrigger ==
    \/ \E value \in StatusValues : CacheChanged(value)
    \/ \E tags \in {{}, {Str_hashWork}} : TagsChanged(tags)
    \/ \E text \in TypedValues \cup {<<>>} : InputEvent(text, TRUE)

ConfigTrigger == \E key \in {"tableActive", "allProperties"} : ToggleHide(1, key)

NextDebounce ==
    \/ \E value \in StatusValues : CacheChanged(value)
    \/ \E tags \in {{}, {Str_hashWork}} : TagsChanged(tags)
    \/ \E text \in TypedValues \cup {<<>>}, inside \in BOOLEAN : InputEvent(text, inside)
    \/ \E key \in {"tableActive", "allProperties"} : ToggleHide(1, key)
    \/ DebounceApplyConditional
    \/ DebounceUpdateCSSDue
    \/ Tick

\* the host's clock advances and the host runs the timers that are due.
\* A timer's action is enabled exactly while the timer is due and leaves it
\* not pending, so that weak fairness of DebounceApplyConditional is
\* []<>(timers.applyDue # 1) and weak fairness of DebounceUpdateCSSDue is
\* []<>(timers.cssDue # 1)
SpecDebounce ==
    /\ InitDebounce
    /\ [][NextDebounce]_vars
    /\ WF_vars(Tick)
    /\ []<>(timers.applyDue # 1)
    /\ []<>(timers.cssDue # 1)

\* C30: a burst of cache-changed and in-surface input triggers within the
\* live-path window causes exactly one live reconciliation, a burst of
\* configuration changes within the stylesheet window exactly one
\* regeneration, each running once its burst has ended; a trigger of one
\* timer neither runs nor postpones the other.
C30_DebounceCollapsesBursts ==
    /\ [][LiveTrigger =>
            /\ propClasses' = propClasses
            /\ timers'.applyDue = ApplyWindow + 1
            /\ timers'.cssDue = timers.cssDue
            /\ cssVars' = cssVars]_vars
    /\ [][ConfigTrigger =>
            /\ cssVars' = cssVars /\ propClasses' = propClasses
            /\ timers'.cssDue = CssWindow + 1
            /\ timers'.applyDue = timers.applyDue]_vars
    /\ [][DebounceApplyConditional =>
            /\ timers.applyDue = 1 /\ timers'.applyDue = 0
            /\ timers'.cssDue = timers.cssDue
            /\ cssVars' = cssVars]_vars
    /\ [][DebounceUpdateCSSDue =>
            /\ timers.cssDue = 1 /\ timers'.cssDue = 0
            /\ timers'.applyDue = timers.applyDue]_vars
    /\ [][propClasses' # propClasses =>
            DebounceApplyConditional \/ DebounceUpdateCSSDue]_vars
    /\ [][cssVars' # cssVars => DebounceUpdateCSSDue]_vars
    /\ ([]<><<LiveTrigger>>_vars) \/ ([]<>(timers.applyDue = 0))
    /\ ([]<><<ConfigTrigger>>_vars) \/ ([]<>(timers.cssDue = 0))

\* no regeneration has run, the live reconciliation ran once after a burst
\* and marked the status field, and the stylesheet timer is still pending
C30_Witness ==
    /\ head = <<>>
    /\ timers.applyDue = 0
    /\ timers.cssDue > 1
    /\ "mh-hide" \in propClasses["table"][Str_status]

\* C31: no evaluation step (a regeneration, an all-fields pass, a live
\* reconciliation pass) changes the rule list or a global option: the
\* configuration after the step is the configuration before it.
C31_EvaluationLeavesConfiguration ==
    [][(RunUpdateCSS \/ RunHideInAllProperties \/ RunApplyConditionalHiding)
          => (settings' = settings /\ savedData' = savedData)]_vars

\* a regeneration installed the fragment and its passes marked a field and
\* an item, for a rule list that holds a rule with a capitalised name
C31_Witness ==
    /\ head # <<>>
    /\ InstalledText = CurrentCSS
    /\ \E i \in DOMAIN settings.entries :
          settings.entries[i].name # toLowerCase(trim(settings.entries[i].name))
    /\ \E surface \in Surfaces : \E key \in DOMAIN propClasses[surface] :
          propClasses[surface][key] # {}
    /\ \E item \in DOMAIN itemHidden : itemHidden[item]
    /\ settings = savedData

C33_NoFragmentAfterUnload == phase = "unloaded" => head = <<>>

\* C34: after a cache-changed notification that changed a stored value,
\* once the live-path debounce has elapsed (and no regeneration is
\* pending) every item of the open all-fields panel is hidden exactly when
\* its winning rule under the new values is a hide rule with allProperties.
C34_AllFieldsFollowStoredValue ==
    (allPropsOpen /\ timers.applyDue = 0 /\ timers.cssDue = 0) =>
        \A item \in DOMAIN itemHidden : itemHidden[item] <=> ItemWinnerHides(item)

\* C35: when the tag set of the active document changes without a
\* document-open event, the installed fragment comes to equal the
\* generator's output for the new document context: with no timer left
\* pending, the fragment installed is the current one.
C35_FragmentFollowsTags ==
    (head # <<>> /\ timers.applyDue = 0 /\ timers.cssDue = 0) =>
        InstalledText = CurrentCSS

(***************************************************************************)
(* Two panes.  The handlers of focusin and focusout look up the container  *)
(* of the active leaf when the event arrives (main.ts lines 236, 258), the *)
(* timeout of focusout keeps the container it found (261-265), and         *)
(* isMetadataFocused is one flag of the plugin.  The user moves between    *)
(* two panes that show the document.  The focus has left the table, and   *)
(* its focusout was handled, when the active leaf changes, so that the     *)
(* focus is in the table of the active pane exactly when isMetadataFocused *)
(* holds, and never in the table of the other pane.  The markers of the    *)
(* field elements are not followed here.                                   *)
(***************************************************************************)
\* the host makes the other pane the active leaf
ActiveLeafChange ==
    /\ phase = "loaded"
    /\ activeFile # 0
    /\ ~isMetadataFocused
    /\ isActive' = otherPane.isActive
    /\ otherPane' = [isActive |-> isActive, grace |-> timers.grace]
    /\ timers' = [timers EXCEPT !.grace = otherPane.grace]
    /\ UNCHANGED <<cfgVars, docVars, isMetadataFocused, propClasses, statusInput,
                   allPropsOpen, itemHidden, isCollapsed, cssVars, raised>>

\* the callback of the oldest pending timeout that holds the container of
\* the pane that is not active, lines 261-265
OtherGraceExpires ==
    /\ otherPane.grace > 0
    /\ otherPane' = [isActive |-> IF ~isMetadataFocused THEN FALSE
                                  ELSE otherPane.isActive,
                     grace |-> otherPane.grace - 1]
    /\ raised' = "none"
    /\ UNCHANGED <<cfgVars, docVars, isActive, isMetadataFocused, propClasses,
                   statusInput, allPropsOpen, itemHidden, isCollapsed, cssVars,
                   timers>>

NextPanes ==
    \/ \E inside \in BOOLEAN : FocusIn(inside)
    \/ \E inside \in BOOLEAN : FocusOut(inside)
    \/ GraceExpires
    \/ ActiveLeafChange
    \/ OtherGraceExpires

SpecPanes == InitFocus /\ [][NextPanes]_vars

\* C36: whenever no element of a table holds the focus and the grace delay
\* has elapsed since the focus left it, the table is not marked active,
\* also when the focus moved into the table of another pane, or the active
\* pane changed, between the focus loss and the expiry: neither the table
\* of the active pane, when the focus is outside it, nor the table of the
\* other pane is marked once no timeout that holds it is pending.
C36_UnfocusedPaneNotActive ==
    /\ (~isMetadataFocused /\ timers.grace = 0) => ~isActive
    /\ otherPane.grace = 0 => ~otherPane.isActive

(***************************************************************************)
(* Markers of the live path                                                *)
(***************************************************************************)
MarkedElements(marker) ==
    {<<surface, key>> \in Surfaces \X KeyUniverse :
        /\ key \in DOMAIN propClasses[surface]
        /\ marker \in propClasses[surface][key]}

\* C37: in every reachable state no field element carries both the
\* force-hidden marker mh-hide and the force-visible marker mh-show.
C37_MarkersExclusive ==
    MarkedElements("mh-hide") \cap MarkedElements("mh-show") = {}

\* a live pass gave mh-show to an element that a live hide rule of the list
\* names as well
C37_Witness ==
    \E el \in MarkedElements("mh-show") :
        \E i \in DOMAIN settings.entries :
            /\ IsDomEntry(settings.entries[i])
            /\ settings.entries[i].action = "hide"
            /\ matchesEntryName(el[2], settings.entries[i])


(***************************************************************************)
(* Unnamed rules.  The add-rule button pushes a rule with an empty name    *)
(* (main.ts lines 637-656); before a name is typed the user toggles its    *)
(* regex switch (703-712) and a target, the style sheet is regenerated     *)
(* and the live passes run over the open document and the all-fields       *)
(* panel.                                                                  *)
(***************************************************************************)
\* the regex toggle of rule index, lines 703-712
ToggleRegex(index) ==
    /\ phase = "loaded"
    /\ index \in DOMAIN settings.entries
    /\ settings' = [settings EXCEPT !.entries[index].isRegex = ~@]
    /\ SaveAndDebounce

InitUnnamed ==
    /\ phase = "loaded"
    /\ settings \in {[DEFAULT_SETTINGS EXCEPT !.entries = <<>>],
                     [DEFAULT_SETTINGS EXCEPT !.entries = <<R_litHide>>]}
    /\ savedData = settings
    /\ clipboard = <<>>
    /\ activeFile = 1
    /\ metadataCache = InitialCache
    /\ isActive = FALSE
    /\ otherPane = NoOtherPane
    /\ isMetadataFocused = FALSE
    /\ propClasses = RenderProps(1)
    /\ statusInput = RenderedInput(Input(<<>>), 1, InitialCache)
    /\ allPropsOpen = TRUE
    /\ itemHidden = hideInAllProperties(settings, 1, InitialCache, TRUE,
                                        [k \in AllPropertyKeys |-> FALSE])
    /\ isCollapsed = FALSE
    /\ head = <<>>
    /\ styleTag = 0
    /\ timers = NoTimers
    /\ raised = "none"

NextUnnamed ==
    \/ AddEntry
    \/ \E index \in 1..MaxRules : ToggleRegex(index)
    \/ \E index \in 1..MaxRules : ToggleHide(index, "allProperties")
    \/ DebounceUpdateCSS
    \/ RunApplyConditionalHiding
    \/ RunHideInAllProperties

SpecUnnamed == InitUnnamed /\ [][NextUnnamed]_vars

UnnamedRules == {i \in DOMAIN settings.entries : settings.entries[i].name = <<>>}

\* C38: a rule whose pattern is empty, whatever its isRegex flag, is the
\* winner of no field key on the live path or in the all-fields pass and
\* gives no declarative block; while it is the only rule no field element
\* and no item of the all-fields panel carries the force-hidden marker.
C38_UnnamedRuleInert ==
    /\ \A i \in UnnamedRules :
          /\ \A surface \in Surfaces :
                \A key \in DOMAIN propClasses[surface] :
                    LiveWinner(settings.entries, surface, key).winner # i
          /\ \A item \in AllPropertyKeys :
                AllFieldsWinner(settings.entries, toLowerCase(item)).winner # i
          /\ genEntriesCSS(<<settings.entries[i]>>, {}, activeFile,
                           PathOf(activeFile), metadataCache) = <<>>
    /\ (UnnamedRules # {} /\ Len(settings.entries) = 1)
          => /\ MarkedElements("mh-hide") = {}
             /\ \A item \in DOMAIN itemHidden : ~itemHidden[item]


(***************************************************************************)
(* Migration across sessions.  The host is started again: the plugin of    *)
(* the last session is gone with its timers and its fragment, a new one is *)
(* constructed and loads what the last session stored (main.ts lines       *)
(* 316-327), the rules being added, changed and deleted in between.        *)
(***************************************************************************)
Restart ==
    /\ phase = "loaded"
    /\ phase' = "constructed"
    /\ settings' = NullData
    /\ head' = <<>>
    /\ styleTag' = 0
    /\ timers' = NoTimers
    /\ raised' = "none"
    /\ UNCHANGED <<savedData, clipboard, docVars, domVars>>

NextMigration ==
    \/ OnLoad
    \/ Restart
    \/ AddEntry
    \/ \E index \in 1..MaxRules, newValue \in TypedNames : SetName(index, newValue)
    \/ \E index \in 1..MaxRules, key \in HideKeys : ToggleHide(index, key)
    \/ \E index \in 1..MaxRules : DeleteEntry(index)

SpecMigration == InitSettings /\ [][NextMigration]_vars

\* C39: the migration of the two lists of version 0 is applied at most once:
\* a load of a record that holds a rule list, as every record saved since
\* the migration does, leaves as many rules as the record holds; the load
\* of a record whose rules were all deleted leaves the rule list empty.
C39_MigrationAtMostOnce ==
    [][OnLoad =>
          ("entries" \in DOMAIN savedData
              => Len(settings'.entries) = Len(savedData.entries))]_vars

====
